---- MODULE Spec2Model ----
(***************************************************************************)
(* State-machine model of the Schedule Evaluator: the loader that maps and *)
(* unifies raw schedule rows (data_loader.py), the section builder and the *)
(* lecture-lab matcher (section_builder.py), the hard and soft constraint  *)
(* checkers (hard_constraints.py, soft_constraints.py) and the driver      *)
(* (evaluator.py main).                                                    *)
(*                                                                         *)
(* Text is modelled as a sequence of one-character strings, so that the    *)
(* conversions of the loader (strip, upper, split, strptime) are computed  *)
(* and not assumed.  A CSV cell that pandas reads as NaN is the empty      *)
(* sequence.  Python's None is None (-1) for numbers and NoneStr (<<>>)    *)
(* for text; a list-valued key whose value is None is modelled by <<>>,    *)
(* since every reader of these keys tests truthiness or maps None to [].   *)
(***************************************************************************)
EXTENDS Integers, Sequences, FiniteSets, TLC

VARIABLES
    csv,                \* the rows of the schedule file, in file order
    pc,                 \* position of main(): input, sections, pairs, hard, soft, report, done, aborted
    unmerged_rows,      \* ScheduleLoader.schedule_rows_unmerged
    schedule_rows,      \* ScheduleLoader.schedule_rows (the unified Meetings)
    unmapped_subjects,  \* ScheduleLoader.unmapped_subjects
    data_conflicts,     \* ScheduleLoader.data_conflicts
    sections,           \* list returned by build_sections
    valid_pairs,        \* first list returned by find_lecture_lab_pairs
    error_pairs,        \* second list returned by find_lecture_lab_pairs
    hard_violations,    \* list returned by check_all_hard_constraints
    soft_violations,    \* list returned by check_all_soft_constraints
    summary,            \* totals and feasibility line of the summary report
    result,             \* value returned by main()
    call,               \* arguments of a helper function called on its own
    ret                 \* value that call returned

vars == <<csv, pc, unmerged_rows, schedule_rows, unmapped_subjects, data_conflicts,
          sections, valid_pairs, error_pairs, hard_violations, soft_violations, summary,
          result, call, ret>>

\* Largest number of rows in the schedule file.
MaxRows == 3

None == -1
NoneStr == <<>>

-----------------------------------------------------------------------------
(* Generic helpers over sequences and sets.                                *)

Max(a, b) == IF a >= b THEN a ELSE b
Min(a, b) == IF a <= b THEN a ELSE b

Range(s) == {s[i] : i \in DOMAIN s}

RECURSIVE SumSeq(_)
SumSeq(s) == IF s = <<>> THEN 0 ELSE Head(s) + SumSeq(Tail(s))

RECURSIVE Concat(_)
Concat(ss) == IF ss = <<>> THEN <<>> ELSE Head(ss) \o Concat(Tail(ss))

\* Distinct entries of s in order of first appearance.
RECURSIVE Distinct(_)
Distinct(s) ==
    IF s = <<>> THEN <<>>
    ELSE LET front == Distinct(SubSeq(s, 1, Len(s) - 1))
         IN IF s[Len(s)] \in Range(front) THEN front ELSE Append(front, s[Len(s)])

\* The key order of a Python dict (or defaultdict) filled by one pass over
\* entries whose keys are ks: distinct keys in order of first appearance.
KeysInOrder(ks) == Distinct(ks)

\* The indices of keys ordered by key, equal keys keeping their order: the
\* permutation a stable sort applies.
RECURSIVE InsertIndex(_, _, _)
InsertIndex(sorted, i, keys) ==
    IF sorted = <<>> THEN <<i>>
    ELSE IF keys[sorted[Len(sorted)]] <= keys[i] THEN Append(sorted, i)
    ELSE Append(InsertIndex(SubSeq(sorted, 1, Len(sorted) - 1), i, keys), sorted[Len(sorted)])

RECURSIVE StableOrder(_, _)
StableOrder(keys, n) ==
    IF n = 0 THEN <<>> ELSE InsertIndex(StableOrder(keys, n - 1), n, keys)

\* list.sort(key=...) : stable; keys[i] is the sort key of s[i].
SortByKey(s, keys) ==
    LET order == StableOrder(keys, Len(s))
    IN [i \in DOMAIN s |-> s[order[i]]]

\* Iteration order of a CPython set of small non-negative ints: the table has 8
\* slots while the set holds fewer than 5 entries, an int hashes to itself and
\* sits in slot (hash mod 8), and iteration walks the slots upwards.  The ids
\* and capacities of the catalog below are distinct modulo 8.
RECURSIVE IntSetList(_)
IntSetList(S) ==
    IF S = {} THEN <<>>
    ELSE LET x == CHOOSE x \in S : \A y \in S : (x % 8) <= (y % 8)
         IN <<x>> \o IntSetList(S \ {x})

\* dict.get(key) on a record: None when the key is absent.
GetId(r, k) == IF k \in DOMAIN r THEN r[k] ELSE None
GetStr(r, k) == IF k \in DOMAIN r THEN r[k] ELSE NoneStr
GetList(r, k) == IF k \in DOMAIN r THEN r[k] ELSE <<>>
\* dict.get(key, 0)
GetNum(r, k) == IF k \in DOMAIN r THEN r[k] ELSE 0

-----------------------------------------------------------------------------
(* Text.                                                                   *)

Digits == <<"0", "1", "2", "3", "4", "5", "6", "7", "8", "9">>
LowerLetters == <<"a", "b", "c", "d", "e", "f", "g", "h", "i", "j", "k", "l", "m",
                  "n", "o", "p", "q", "r", "s", "t", "u", "v", "w", "x", "y", "z">>
UpperLetters == <<"A", "B", "C", "D", "E", "F", "G", "H", "I", "J", "K", "L", "M",
                  "N", "O", "P", "Q", "R", "S", "T", "U", "V", "W", "X", "Y", "Z">>

IsDigit(c) == c \in Range(Digits)
DigitValue(c) == (CHOOSE i \in DOMAIN Digits : Digits[i] = c) - 1

UpperChar(c) ==
    IF c \in Range(LowerLetters)
    THEN UpperLetters[CHOOSE i \in DOMAIN LowerLetters : LowerLetters[i] = c]
    ELSE c

\* str.upper()
upper(s) == [i \in 1..Len(s) |-> UpperChar(s[i])]

\* str.strip() : drop leading and trailing blanks.
RECURSIVE lstrip(_)
lstrip(s) == IF s # <<>> /\ Head(s) = " " THEN lstrip(Tail(s)) ELSE s
RECURSIVE rstrip(_)
rstrip(s) == IF s # <<>> /\ s[Len(s)] = " " THEN rstrip(SubSeq(s, 1, Len(s) - 1)) ELSE s
strip(s) == rstrip(lstrip(s))

\* str.replace(ch, "")
remove(s, ch) == SelectSeq(s, LAMBDA c : c # ch)

\* str.split(sep) for a one-character separator.
RECURSIVE split(_, _)
split(s, sep) ==
    IF \E i \in DOMAIN s : s[i] = sep
    THEN LET i == CHOOSE i \in DOMAIN s : s[i] = sep /\ \A j \in 1..(i - 1) : s[j] # sep
         IN <<SubSeq(s, 1, i - 1)>> \o split(SubSeq(s, i + 1, Len(s)), sep)
    ELSE <<s>>

\* pd.isna(cell) and str(cell) for a cell read by pandas.
isna(cell) == cell = <<>>
pystr(cell) == IF isna(cell) THEN <<"n", "a", "n">> ELSE cell

\* The value of a field of one or two decimal digits.
Number(s) ==
    IF Len(s) = 1 THEN DigitValue(s[1]) ELSE 10 * DigitValue(s[1]) + DigitValue(s[2])

\* time_to_minutes: strptime(str(time_str).strip(), "%H:%M"), hour*60+minute,
\* and 0 on NaN or on any parse error.  %H takes one or two digits up to 23,
\* %M one or two digits up to 59.
time_to_minutes(time_str) ==
    IF isna(time_str) THEN 0
    ELSE LET parts == split(strip(time_str), ":")
             ok == /\ Len(parts) = 2
                   /\ \A k \in 1..2 : /\ Len(parts[k]) \in 1..2
                                      /\ \A i \in DOMAIN parts[k] : IsDigit(parts[k][i])
                   /\ Number(parts[1]) <= 23
                   /\ Number(parts[2]) <= 59
         IN IF ok THEN Number(parts[1]) * 60 + Number(parts[2]) ELSE 0

\* normalize_subject_name: "" for NaN or empty, else spaces and periods removed
\* and upper-cased.
normalize_subject_name(name) ==
    IF isna(name) THEN <<>> ELSE upper(remove(remove(name, " "), "."))

-----------------------------------------------------------------------------
(* ReferenceData: the catalog read from the reference folder.  One fixed   *)
(* catalog is used; it holds a subject with id 0, a lab linked to it, a    *)
(* second lecture/lab couple and a subject without lab.                    *)

CS1 == <<"C", "S", " ", "1">>
CS1L == <<"C", "S", " ", "1", "L">>
ICS103 == <<"I", "C", "S", " ", "1", "0", "3">>
ICS103L == <<"I", "C", "S", " ", "1", "0", "3", "L">>
F1 == <<"F", "1">>
F2 == <<"F", "2">>
R1 == <<"R", "1">>
R2 == <<"R", "2">>
B1 == <<"B", "1">>
B2 == <<"B", "2">>

\* subjects.csv
subjects_csv ==
    << [subject_id |-> 0, subject_name |-> CS1, linked_subject_id |-> None],
       [subject_id |-> 1, subject_name |-> CS1L, linked_subject_id |-> 0],
       [subject_id |-> 2, subject_name |-> ICS103, linked_subject_id |-> None],
       [subject_id |-> 3, subject_name |-> ICS103L, linked_subject_id |-> 2] >>

\* faculty.csv
faculty_csv ==
    << [faculty_id |-> 1, faculty_name |-> F1, min_load |-> 0, max_load |-> 99,
        max_subjects |-> 1, preferred_subjects |-> <<2>>, qualified_subjects |-> <<>>],
       [faculty_id |-> 2, faculty_name |-> F2, min_load |-> 1, max_load |-> 99,
        max_subjects |-> 99, preferred_subjects |-> <<>>, qualified_subjects |-> <<>>] >>

\* rooms.csv
rooms_csv ==
    << [room_id |-> 1, room_name |-> R1, capacity |-> 45],
       [room_id |-> 2, room_name |-> R2, capacity |-> 40] >>

\* student_batches.csv
batches_csv ==
    << [batch_id |-> 1, batch_name |-> B1, population |-> 45],
       [batch_id |-> 2, batch_name |-> B2, population |-> 30] >>

\* A dict filled by d[row[field]] = row over the rows of a table: a later row
\* with the same key replaces an earlier one.
DictBy(rows, field) ==
    [k \in {rows[i][field] : i \in DOMAIN rows} |->
        rows[CHOOSE i \in DOMAIN rows :
                /\ rows[i][field] = k
                /\ \A j \in DOMAIN rows : rows[j][field] = k => j <= i]]

\* ReferenceData._load_subjects
subject_data(row) ==
    [subject_id |-> row.subject_id,
     subject_name |-> strip(row.subject_name),
     normalized_name |-> normalize_subject_name(strip(row.subject_name)),
     linked_subject_id |-> row.linked_subject_id]
subjects_loaded == [i \in DOMAIN subjects_csv |-> subject_data(subjects_csv[i])]
subjects_by_name == DictBy(subjects_loaded, "normalized_name")
subjects_by_id == DictBy(subjects_loaded, "subject_id")

\* ReferenceData._load_faculty
faculty_loaded ==
    [i \in DOMAIN faculty_csv |->
        [faculty_csv[i] EXCEPT !.faculty_name = strip(faculty_csv[i].faculty_name)]]
faculty_by_name == DictBy(faculty_loaded, "faculty_name")
faculty_by_id == DictBy(faculty_loaded, "faculty_id")

\* ReferenceData._load_rooms
rooms_loaded ==
    [i \in DOMAIN rooms_csv |->
        [rooms_csv[i] EXCEPT !.room_name = strip(rooms_csv[i].room_name)]]
rooms_by_name == DictBy(rooms_loaded, "room_name")
rooms_by_id == DictBy(rooms_loaded, "room_id")

\* ReferenceData._load_batches
batches_loaded ==
    [i \in DOMAIN batches_csv |->
        [batches_csv[i] EXCEPT !.batch_name = strip(batches_csv[i].batch_name)]]
batches_by_name == DictBy(batches_loaded, "batch_name")
batches_by_id == DictBy(batches_loaded, "batch_id")

\* Iteration order of a set of str.  str hashes are salted per process, so the
\* order differs from run to run; the two orders modelled are the catalog
\* order of the names and its reverse (rev).  Every name that reaches such a
\* set was found in the catalog.
NameRank(name) ==
    LET names == [i \in DOMAIN faculty_loaded |-> faculty_loaded[i].faculty_name]
                 \o [i \in DOMAIN rooms_loaded |-> rooms_loaded[i].room_name]
                 \o [i \in DOMAIN batches_loaded |-> batches_loaded[i].batch_name]
    IN CHOOSE i \in DOMAIN names : names[i] = name

RECURSIVE StrSetList(_, _)
StrSetList(S, rev) ==
    IF S = {} THEN <<>>
    ELSE LET x == CHOOSE x \in S : \A y \in S :
                     IF rev THEN NameRank(x) >= NameRank(y) ELSE NameRank(x) <= NameRank(y)
         IN <<x>> \o StrSetList(S \ {x}, rev)

-----------------------------------------------------------------------------
(* ScheduleLoader: mapping of one row, unification of the mapped rows.     *)

\* _map_row returns None (the row is not kept) for a NaN or blank subject.
RowIsMapped(row) == ~(isna(row.subject_name) \/ strip(pystr(row.subject_name)) = <<>>)

\* The batch names of a batch field: split on ";", blanks and empty parts
\* dropped, a parenthesised count cut off; only names found in the catalog
\* are kept, each as often as the field lists it.
batch_names_of(field) ==
    IF ~isna(field) /\ strip(field) # <<>>
    THEN LET parts == SelectSeq([i \in DOMAIN split(strip(field), ";") |->
                                     strip(split(strip(field), ";")[i])],
                                LAMBDA b : b # <<>>)
             clean == [i \in DOMAIN parts |->
                          IF "(" \in Range(parts[i])
                          THEN strip(split(parts[i], "(")[1])
                          ELSE parts[i]]
         IN SelectSeq(clean, LAMBDA b : b \in DOMAIN batches_by_name)
    ELSE <<>>

\* ScheduleLoader._map_row for a kept row; idx is the 0-based row index.
\* meeting_id (idx + 1 when the file has no such column) is kept as the
\* sequence of row ids its text shows: <<7>> for 7, <<1, 2>> for "1/2".
map_row(row, idx) ==
    LET event_name == row.subject_name
        normalized_event == normalize_subject_name(event_name)
        found == normalized_event \in DOMAIN subjects_by_name
        has_faculty == ~isna(row.faculty_name) /\ strip(row.faculty_name) # <<>>
        faculty_name == IF has_faculty THEN strip(row.faculty_name) ELSE NoneStr
        faculty_found == has_faculty /\ faculty_name \in DOMAIN faculty_by_name
        has_room == ~isna(row.room_name) /\ strip(row.room_name) # <<>>
        room_name == IF has_room THEN strip(row.room_name) ELSE NoneStr
        room_found == has_room /\ room_name \in DOMAIN rooms_by_name
        batch_names == batch_names_of(row.batch_names)
        batch_ids == [i \in DOMAIN batch_names |-> batches_by_name[batch_names[i]].batch_id]
        start_time == pystr(row.start_time)
        end_time == pystr(row.end_time)
    IN [row_index |-> idx,
        meeting_id |-> <<idx + 1>>,
        subject_id |-> IF found THEN subjects_by_name[normalized_event].subject_id ELSE None,
        subject_name |-> IF found THEN subjects_by_name[normalized_event].subject_name
                         ELSE strip(event_name),
        original_event_name |-> strip(event_name),
        faculty_id |-> IF faculty_found THEN faculty_by_name[faculty_name].faculty_id ELSE None,
        faculty_name |-> faculty_name,
        room_id |-> IF room_found THEN rooms_by_name[room_name].room_id ELSE None,
        room_name |-> room_name,
        room_capacity |-> IF room_found THEN rooms_by_name[room_name].capacity ELSE None,
        batch_id |-> IF batch_ids # <<>> THEN batch_ids[1] ELSE None,
        batch_name |-> IF batch_names # <<>> THEN batch_names[1] ELSE NoneStr,
        batch_population |->
            SumSeq([i \in DOMAIN batch_names |-> batches_by_name[batch_names[i]].population]),
        all_batch_ids |-> IF Len(batch_ids) > 1 THEN batch_ids ELSE <<>>,
        all_batch_names |-> IF Len(batch_names) > 1 THEN batch_names ELSE <<>>,
        day |-> upper(strip(pystr(row.day))),
        start_time |-> start_time,
        end_time |-> end_time,
        start_minutes |-> time_to_minutes(start_time),
        end_minutes |-> time_to_minutes(end_time),
        duration_minutes |-> time_to_minutes(end_time) - time_to_minutes(start_time)]

\* The loop of ScheduleLoader.load over the rows of the file.
map_rows(rows) ==
    LET kept == SelectSeq([i \in DOMAIN rows |-> i], LAMBDA i : RowIsMapped(rows[i]))
    IN [k \in DOMAIN kept |-> map_row(rows[kept[k]], kept[k] - 1)]

\* The names _map_row adds to unmapped_subjects.
unmapped_of(rows) ==
    {strip(rows[i].subject_name) :
        i \in {j \in DOMAIN rows :
                 /\ RowIsMapped(rows[j])
                 /\ normalize_subject_name(rows[j].subject_name) \notin DOMAIN subjects_by_name}}

\* The grouping key of _unify_meetings.
meeting_key(row) == <<row.subject_name, row.day, row.start_time, row.end_time>>

\* The last entry of ids that is not None, or None.
LastNotNone(ids) ==
    IF \E i \in DOMAIN ids : ids[i] # None
    THEN ids[CHOOSE i \in DOMAIN ids : ids[i] # None /\ \A j \in DOMAIN ids : ids[j] # None => j <= i]
    ELSE None

\* The faculty, room and batch ids and names _merge_meeting_rows collects.
merged_faculty_ids(rows) == {rows[i].faculty_id : i \in DOMAIN rows} \ {None}
merged_faculty_names(rows) ==
    {rows[i].faculty_name : i \in {j \in DOMAIN rows : rows[j].faculty_id # None}}
merged_batch_ids(rows) == {rows[i].batch_id : i \in DOMAIN rows} \ {None}
merged_batch_names(rows) ==
    {rows[i].batch_name : i \in {j \in DOMAIN rows : rows[j].batch_id # None}}
merged_room_ids(rows) == {rows[i].room_id : i \in DOMAIN rows} \ {None}
merged_room_names(rows) ==
    {rows[i].room_name : i \in {j \in DOMAIN rows : rows[j].room_id # None}}
merged_room_capacities(rows) ==
    {rows[i].room_capacity :
        i \in {j \in DOMAIN rows : rows[j].room_id # None /\ rows[j].room_capacity # None}}

\* merge_conflicts with the faculty test off by one (len(faculty_ids) >= 1).
merge_conflicts_from_one(rows, key, rev) ==
    LET meeting_ids == [i \in DOMAIN rows |-> rows[i].meeting_id[1]]
    IN (IF Cardinality(merged_faculty_ids(rows)) >= 1
        THEN << [type |-> "Multiple Faculty Conflict", meeting |-> key,
                 row_ids |-> meeting_ids,
                 faculty |-> StrSetList(merged_faculty_names(rows), rev)] >>
        ELSE <<>>)
       \o
       (IF Cardinality(merged_room_ids(rows)) > 1
        THEN << [type |-> "Multiple Room Conflict", meeting |-> key,
                 row_ids |-> meeting_ids,
                 rooms |-> StrSetList(merged_room_names(rows), rev)] >>
        ELSE <<>>)

\* The conflict records _merge_meeting_rows appends for one group of rows.
merge_conflicts(rows, key, rev) ==
    LET meeting_ids == [i \in DOMAIN rows |-> rows[i].meeting_id[1]]
    IN (IF Cardinality(merged_faculty_ids(rows)) > 1
        THEN << [type |-> "Multiple Faculty Conflict", meeting |-> key,
                 row_ids |-> meeting_ids,
                 faculty |-> StrSetList(merged_faculty_names(rows), rev)] >>
        ELSE <<>>)
       \o
       (IF Cardinality(merged_room_ids(rows)) > 1
        THEN << [type |-> "Multiple Room Conflict", meeting |-> key,
                 row_ids |-> meeting_ids,
                 rooms |-> StrSetList(merged_room_names(rows), rev)] >>
        ELSE <<>>)

\* The unified meeting _merge_meeting_rows returns for one group of rows.
merge_meeting_rows(rows, key, rev) ==
    LET meeting_ids == [i \in DOMAIN rows |-> rows[i].meeting_id[1]]
        faculty_ids == IntSetList(merged_faculty_ids(rows))
        faculty_names == StrSetList(merged_faculty_names(rows), rev)
        batch_ids == IntSetList(merged_batch_ids(rows))
        batch_names == StrSetList(merged_batch_names(rows), rev)
        room_ids == IntSetList(merged_room_ids(rows))
        room_names == StrSetList(merged_room_names(rows), rev)
        room_capacities == IntSetList(merged_room_capacities(rows))
    IN [row_index |-> rows[1].row_index,
        meeting_id |-> SortByKey(meeting_ids, meeting_ids),
        merged_from_rows |-> meeting_ids,
        subject_id |-> LastNotNone([i \in DOMAIN rows |-> rows[i].subject_id]),
        subject_name |-> key[1],
        original_event_name |-> rows[Len(rows)].original_event_name,
        faculty_id |-> IF faculty_ids # <<>> THEN faculty_ids[1] ELSE None,
        faculty_name |-> IF faculty_names # <<>> THEN faculty_names[1] ELSE NoneStr,
        all_faculty_ids |-> faculty_ids,
        all_faculty_names |-> faculty_names,
        room_id |-> IF room_ids # <<>> THEN room_ids[1] ELSE None,
        room_name |-> IF room_names # <<>> THEN room_names[1] ELSE NoneStr,
        room_capacity |-> IF room_capacities # <<>> THEN room_capacities[1] ELSE None,
        all_room_ids |-> room_ids,
        all_room_names |-> room_names,
        batch_id |-> IF batch_ids # <<>> THEN batch_ids[1] ELSE None,
        batch_name |-> IF batch_names # <<>> THEN batch_names[1] ELSE NoneStr,
        batch_population |->
            SumSeq([i \in DOMAIN batch_ids |->
                       IF batch_ids[i] \in DOMAIN batches_by_id
                       THEN batches_by_id[batch_ids[i]].population ELSE 0]),
        all_batch_ids |-> batch_ids,
        all_batch_names |-> batch_names,
        day |-> key[2],
        start_time |-> key[3],
        end_time |-> key[4],
        start_minutes |-> rows[1].start_minutes,
        end_minutes |-> rows[1].end_minutes,
        duration_minutes |-> rows[1].duration_minutes]

\* The rows of one meeting key, in input order.
rows_of_key(rows, key) == SelectSeq(rows, LAMBDA r : meeting_key(r) = key)

\* unify_meetings without the single-row branch: every group is merged.
unify_meetings_merge_all(rows, rev) ==
    LET keys == KeysInOrder([i \in DOMAIN rows |-> meeting_key(rows[i])])
    IN [k \in DOMAIN keys |-> merge_meeting_rows(rows_of_key(rows, keys[k]), keys[k], rev)]

\* ScheduleLoader._unify_meetings: one meeting per key, keys in order of first
\* appearance; a lone row passes through, several rows are merged.
unify_meetings(rows, rev) ==
    LET keys == KeysInOrder([i \in DOMAIN rows |-> meeting_key(rows[i])])
    IN [k \in DOMAIN keys |->
           LET group == rows_of_key(rows, keys[k])
           IN IF Len(group) = 1 THEN group[1]
              ELSE merge_meeting_rows(group, keys[k], rev)]

\* The conflicts _unify_meetings leaves in data_conflicts.
unify_conflicts(rows, rev) ==
    LET keys == KeysInOrder([i \in DOMAIN rows |-> meeting_key(rows[i])])
    IN Concat([k \in DOMAIN keys |->
                  LET group == rows_of_key(rows, keys[k])
                  IN IF Len(group) = 1 THEN <<>>
                     ELSE merge_conflicts(group, keys[k], rev)])

-----------------------------------------------------------------------------
(* section_builder.py: Section, build_sections, find_lecture_lab_pairs.    *)

\* str(n) for 0 <= n < 100.
IntText(n) ==
    IF n < 10 THEN <<Digits[n + 1]>> ELSE <<Digits[(n \div 10) + 1], Digits[(n % 10) + 1]>>

\* The batch ids build_sections reads from a meeting: all_batch_ids, or the
\* single batch_id when that list is None or empty.
meeting_batch_ids(meeting) ==
    LET batch_ids == GetList(meeting, "all_batch_ids")
    IN IF batch_ids = <<>> /\ GetId(meeting, "batch_id") # None
       THEN <<meeting.batch_id>>
       ELSE batch_ids

\* The meetings build_sections groups: those it does not skip.
is_grouped(meeting) ==
    /\ meeting.subject_id # None
    /\ ~(GetId(meeting, "faculty_id") = None /\ meeting_batch_ids(meeting) = <<>>)

\* section_key without the batches: (subject_id, faculty_id, frozenset()).
section_key_without_batches(meeting) ==
    <<meeting.subject_id, GetId(meeting, "faculty_id"), {}>>

\* The grouping key (subject_id, faculty_id, frozenset(batch_ids)).
section_key(meeting) ==
    <<meeting.subject_id, GetId(meeting, "faculty_id"), Range(meeting_batch_ids(meeting))>>

\* add_batches with total_students assigned instead of increased.
RECURSIVE add_batches_overwriting(_)
add_batches_overwriting(ids) ==
    IF ids = <<>> THEN [batch_ids |-> {}, batch_names |-> {}, total_students |-> 0]
    ELSE LET before == add_batches_overwriting(SubSeq(ids, 1, Len(ids) - 1))
             batch_id == ids[Len(ids)]
             known == batch_id \in DOMAIN batches_by_id
         IN IF batch_id \notin before.batch_ids
            THEN [batch_ids |-> before.batch_ids \cup {batch_id},
                  batch_names |-> before.batch_names \cup
                      {IF known THEN batches_by_id[batch_id].batch_name ELSE IntText(batch_id)},
                  total_students |-> IF known THEN batches_by_id[batch_id].population ELSE 0]
            ELSE before

\* Section.add_batch called for every id of ids in turn, on a new Section.
RECURSIVE add_batches(_)
add_batches(ids) ==
    IF ids = <<>> THEN [batch_ids |-> {}, batch_names |-> {}, total_students |-> 0]
    ELSE LET before == add_batches(SubSeq(ids, 1, Len(ids) - 1))
             batch_id == ids[Len(ids)]
             known == batch_id \in DOMAIN batches_by_id
         IN IF batch_id \notin before.batch_ids
            THEN [batch_ids |-> before.batch_ids \cup {batch_id},
                  batch_names |-> before.batch_names \cup
                      {IF known THEN batches_by_id[batch_id].batch_name ELSE IntText(batch_id)},
                  total_students |-> before.total_students
                      + (IF known THEN batches_by_id[batch_id].population ELSE 0)]
            ELSE before

\* Section.add_room called for every meeting of meetings that has a room.
RECURSIVE add_rooms(_)
add_rooms(meetings) ==
    IF meetings = <<>>
    THEN [room_ids |-> {}, room_names |-> {}, room_id |-> None, room_name |-> NoneStr,
          room_capacity |-> None]
    ELSE LET before == add_rooms(SubSeq(meetings, 1, Len(meetings) - 1))
             meeting == meetings[Len(meetings)]
             first == before.room_id = None
         IN IF GetId(meeting, "room_id") # None
            THEN [room_ids |-> before.room_ids \cup {meeting.room_id},
                  room_names |-> before.room_names \cup {GetStr(meeting, "room_name")},
                  room_id |-> IF first THEN meeting.room_id ELSE before.room_id,
                  room_name |-> IF first THEN GetStr(meeting, "room_name") ELSE before.room_name,
                  room_capacity |-> IF first THEN GetId(meeting, "room_capacity")
                                    ELSE before.room_capacity]
            ELSE before

\* The Section build_sections makes of one group.
Section(key, section_index, meetings) ==
    LET subject_id == key[1]
        faculty_id == key[2]
        subject_name == IF subject_id \in DOMAIN subjects_by_id
                        THEN subjects_by_id[subject_id].subject_name
                        ELSE IntText(subject_id)
        batches == add_batches(IntSetList(key[3]))
        rooms == add_rooms(meetings)
    IN [subject_id |-> subject_id,
        subject_name |-> subject_name,
        section_index |-> section_index,
        section_id |-> subject_name \o <<"-">> \o IntText(section_index),
        faculty_id |-> faculty_id,
        faculty_name |-> IF faculty_id = None THEN NoneStr
                         ELSE IF faculty_id \in DOMAIN faculty_by_id
                              THEN faculty_by_id[faculty_id].faculty_name
                              ELSE IntText(faculty_id),
        batch_ids |-> batches.batch_ids,
        batch_names |-> batches.batch_names,
        total_students |-> batches.total_students,
        room_ids |-> rooms.room_ids,
        room_names |-> rooms.room_names,
        room_capacity |-> rooms.room_capacity,
        room_id |-> rooms.room_id,
        room_name |-> rooms.room_name,
        meetings |-> meetings,
        has_conflict |-> FALSE]

\* build_sections: one Section per grouping key, keys in order of first
\* appearance, numbered per subject from 0.
build_sections(rows) ==
    LET grouped == SelectSeq(rows, is_grouped)
        keys == KeysInOrder([i \in DOMAIN grouped |-> section_key(grouped[i])])
    IN [k \in DOMAIN keys |->
           Section(keys[k],
                   Cardinality({j \in 1..(k - 1) : keys[j][1] = keys[k][1]}),
                   SelectSeq(grouped, LAMBDA m : section_key(m) = keys[k]))]

\* The map lab subject_id -> lecture subject_id: the subjects whose
\* linked_subject_id is truthy (neither None nor 0).
lab_to_lecture ==
    [subject_id \in {s \in DOMAIN subjects_by_id :
                        /\ subjects_by_id[s].linked_subject_id # None
                        /\ subjects_by_id[s].linked_subject_id # 0} |->
        subjects_by_id[subject_id].linked_subject_id]

\* A LectureLabPair of find_lecture_lab_pairs; lecture_section and lab_section
\* refer to Sections by their position in the section list.
LectureLabPair(secs, lecture, lab) ==
    LET same_faculty == secs[lab].faculty_id = secs[lecture].faculty_id
    IN [lecture_section |-> lecture,
        lab_section |-> lab,
        is_valid |-> same_faculty,
        error |-> IF same_faculty THEN NoneStr
                  ELSE <<"Different faculty", secs[lecture].faculty_name, secs[lab].faculty_name>>]

\* The pairs the loops of find_lecture_lab_pairs construct, in order.
constructed_pairs(secs) ==
    Concat([lab \in DOMAIN secs |->
               IF secs[lab].subject_id \in DOMAIN lab_to_lecture
               THEN LET lectures ==
                            SelectSeq([j \in DOMAIN secs |-> j],
                                      LAMBDA j :
                                         /\ secs[j].subject_id = lab_to_lecture[secs[lab].subject_id]
                                         /\ secs[lab].batch_ids = secs[j].batch_ids)
                    IN [k \in DOMAIN lectures |-> LectureLabPair(secs, lectures[k], lab)]
               ELSE <<>>])

\* find_lecture_lab_pairs: (valid_pairs, error_pairs).
find_lecture_lab_pairs(secs) ==
    [valid_pairs |-> SelectSeq(constructed_pairs(secs), LAMBDA p : p.is_valid),
     error_pairs |-> SelectSeq(constructed_pairs(secs), LAMBDA p : ~p.is_valid)]

-----------------------------------------------------------------------------
(* hard_constraints.py.  A violation is a record; the fields that only     *)
(* render text for the report (meeting1, meeting2, details) are left out.  *)

\* Config built from get_default_config (no config.json): thresholds in
\* minutes and penalty weights.
Config ==
    [PENALTY_EXPONENT |-> 1,
     LOAD_TO_MINUTES |-> 180,
     MAX_CONTINUOUS_CLASS_MINUTES |-> 3 * 60,
     MIN_CONTINUOUS_CLASS_MINUTES |-> 90,
     MIN_GAP_MINUTES |-> 30,
     EXCESS_GAP_MINUTES |-> 30,
     FRIDAY_LATE_MINUTES |-> 750,
     MAX_SUBJECTS_PER_FACULTY |-> 5,
     FACULTY_OVERLOAD_PER_LOAD |-> 1,
     FACULTY_UNDERFILL_PER_LOAD |-> 1,
     SECTION_OVERFILL_PER_STUDENT |-> 1,
     SECTION_UNDERFILL_PER_STUDENT |-> 1,
     MIN_CONTINUOUS_PENALTY_PER_MINUTE |-> 0,
     EXCESS_GAP_PENALTY_PER_MINUTE |-> 0,
     NON_PREFERRED_SUBJECT_PENALTY |-> 1,
     FRIDAY_LATE_PENALTY_PER_MINUTE |-> 1,
     EXCESS_SUBJECTS_PENALTY_PER_SUBJECT |-> 1,
     EXTERNAL_MEETING_CONFLICT_PENALTY_PER_MINUTE |-> 1]

\* f"{n:02d}" for 0 <= n < 100.
TwoDigits(n) == <<Digits[(n \div 10) + 1], Digits[(n % 10) + 1]>>

\* minutes_to_time_str: "HH:MM".
minutes_to_time_str(minutes) == TwoDigits(minutes \div 60) \o <<":">> \o TwoDigits(minutes % 60)

\* check_overlap on closed intervals: touching intervals overlap.
check_overlap_closed(start1, end1, start2, end2) == start1 <= end2 /\ start2 <= end1

check_overlap(start1, end1, start2, end2) == start1 < end2 /\ start2 < end1

\* calculate_overlap_duration without the max(0, ...).
calculate_overlap_duration_unclamped(start1, end1, start2, end2) ==
    Min(end1, end2) - Max(start1, start2)

calculate_overlap_duration(start1, end1, start2, end2) ==
    Max(0, Min(end1, end2) - Max(start1, start2))

\* The entities (entity_type is "faculty", "batch" or "room") under which the
\* checks list a meeting: every entry of all_<type>_ids when that list is not
\* empty, else the single <type>_id when it is not None.
entity_ids_of(row, entity_type) ==
    IF GetList(row, "all_" \o entity_type \o "_ids") # <<>>
    THEN row["all_" \o entity_type \o "_ids"]
    ELSE IF GetId(row, entity_type \o "_id") # None
         THEN <<row[entity_type \o "_id"]>>
         ELSE <<>>

\* The name the checks give an entity.
entity_name_of(entity_type, entity_id) ==
    LET by_id == CASE entity_type = "faculty" -> faculty_by_id
                   [] entity_type = "batch" -> batches_by_id
                   [] entity_type = "room" -> rooms_by_id
    IN IF entity_id \in DOMAIN by_id
       THEN by_id[entity_id][entity_type \o "_name"]
       ELSE IntText(entity_id)

\* str.capitalize() of an entity type.
capitalize(entity_type) ==
    CASE entity_type = "faculty" -> "Faculty"
      [] entity_type = "batch" -> "Batch"
      [] entity_type = "room" -> "Room"

\* by_entity as the hard checks fill it: one entry per meeting and entity the
\* meeting is listed under, in order.
entity_entries(rows, entity_type) ==
    Concat([i \in DOMAIN rows |->
               [k \in DOMAIN entity_ids_of(rows[i], entity_type) |->
                   [entity_id |-> entity_ids_of(rows[i], entity_type)[k], row |-> rows[i]]]])

\* The loops over by_entity and, under it, by_day: one group per entity and
\* day in iteration order (entities and days in order of first appearance),
\* each with the day's meetings sorted by start_minutes.
by_entity_by_day(entries) ==
    LET entities == KeysInOrder([i \in DOMAIN entries |-> entries[i].entity_id])
    IN Concat([e \in DOMAIN entities |->
           LET meetings == SelectSeq(entries, LAMBDA x : x.entity_id = entities[e])
               days == KeysInOrder([i \in DOMAIN meetings |-> meetings[i].row.day])
           IN [d \in DOMAIN days |->
                  LET on_day == SelectSeq(meetings, LAMBDA x : x.row.day = days[d])
                      day_meetings == [i \in DOMAIN on_day |-> on_day[i].row]
                  IN [entity_id |-> entities[e],
                      day |-> days[d],
                      day_meetings |->
                          SortByKey(day_meetings,
                                    [i \in DOMAIN day_meetings |-> day_meetings[i].start_minutes])]]])

\* The violations of one entity and day in a time-conflict pass: every i < j
\* of the sorted meetings that overlap.
conflicts_on_day(group, entity_type) ==
    LET dm == group.day_meetings
    IN Concat([i \in DOMAIN dm |->
           Concat([j \in DOMAIN dm |->
               IF /\ j > i
                  /\ check_overlap(dm[i].start_minutes, dm[i].end_minutes,
                                   dm[j].start_minutes, dm[j].end_minutes)
               THEN << [type |-> capitalize(entity_type) \o " Time Conflict",
                        entity_type |-> capitalize(entity_type),
                        entity_name |-> entity_name_of(entity_type, group.entity_id),
                        day |-> group.day,
                        meeting1_id |-> dm[i].meeting_id,
                        meeting2_id |-> dm[j].meeting_id,
                        magnitude |-> calculate_overlap_duration(
                                          dm[i].start_minutes, dm[i].end_minutes,
                                          dm[j].start_minutes, dm[j].end_minutes)] >>
               ELSE <<>>])])

\* check_faculty_time_conflicts, check_batch_time_conflicts and
\* check_room_time_conflicts: the same pass over faculty, batches and rooms.
check_time_conflicts(rows, entity_type) ==
    LET groups == by_entity_by_day(entity_entries(rows, entity_type))
    IN Concat([g \in DOMAIN groups |-> conflicts_on_day(groups[g], entity_type)])

check_faculty_time_conflicts(rows) == check_time_conflicts(rows, "faculty")
check_batch_time_conflicts(rows) == check_time_conflicts(rows, "batch")
check_room_time_conflicts(rows) == check_time_conflicts(rows, "room")

\* check_room_capacity
check_room_capacity(secs) ==
    Concat([s \in DOMAIN secs |->
        IF secs[s].room_id = None \/ secs[s].room_capacity = None THEN <<>>
        ELSE IF secs[s].total_students > secs[s].room_capacity
        THEN << [type |-> "Room Capacity Exceeded",
                 entity_type |-> "Section",
                 entity_name |-> secs[s].section_id,
                 subject |-> secs[s].subject_name,
                 room |-> secs[s].room_name,
                 total_students |-> secs[s].total_students,
                 room_capacity |-> secs[s].room_capacity,
                 magnitude |-> secs[s].total_students - secs[s].room_capacity] >>
        ELSE <<>>])

\* checked_blocks in which a meeting that starts at or before the end of the
\* previous one extends the block.
RECURSIVE checked_blocks_joining_overlaps(_, _, _, _)
checked_blocks_joining_overlaps(dm, i, block_start, block_end) ==
    IF i < Len(dm)
    THEN IF dm[i + 1].start_minutes <= dm[i].end_minutes
         THEN checked_blocks_joining_overlaps(dm, i + 1, block_start, dm[i + 1].end_minutes)
         ELSE <<[block_start |-> block_start, block_end |-> block_end]>>
              \o checked_blocks_joining_overlaps(dm, i + 1, dm[i + 1].start_minutes,
                                                 dm[i + 1].end_minutes)
    ELSE <<[block_start |-> block_start, block_end |-> dm[i].end_minutes]>>

\* The blocks the loop of _check_continuous_for_entity_type checks, from
\* meeting i on: a block is checked when a gap follows it and at the last
\* meeting (there with current_end as its end).
RECURSIVE checked_blocks(_, _, _, _)
checked_blocks(dm, i, block_start, block_end) ==
    IF i < Len(dm)
    THEN IF dm[i].end_minutes = dm[i + 1].start_minutes
         THEN checked_blocks(dm, i + 1, block_start, dm[i + 1].end_minutes)
         ELSE <<[block_start |-> block_start, block_end |-> block_end]>>
              \o checked_blocks(dm, i + 1, dm[i + 1].start_minutes, dm[i + 1].end_minutes)
    ELSE <<[block_start |-> block_start, block_end |-> dm[i].end_minutes]>>

\* _check_continuous_for_entity_type
check_continuous_for_entity_type(rows, entity_type, max_minutes) ==
    LET groups == by_entity_by_day(entity_entries(rows, entity_type))
    IN Concat([g \in DOMAIN groups |->
           LET dm == groups[g].day_meetings
               blocks == checked_blocks(dm, 1, dm[1].start_minutes, dm[1].end_minutes)
           IN Concat([b \in DOMAIN blocks |->
                  LET block_duration == blocks[b].block_end - blocks[b].block_start
                  IN IF block_duration > max_minutes
                     THEN << [type |-> "Max Continuous Class Exceeded",
                              entity_type |-> capitalize(entity_type),
                              entity_name |-> entity_name_of(entity_type, groups[g].entity_id),
                              day |-> groups[g].day,
                              block_start |-> minutes_to_time_str(blocks[b].block_start),
                              block_end |-> minutes_to_time_str(blocks[b].block_end),
                              block_duration |-> block_duration,
                              max_allowed |-> max_minutes,
                              magnitude |-> block_duration - max_minutes] >>
                     ELSE <<>>])])

\* check_max_continuous_class: faculty, then batches.
check_max_continuous_class(rows) ==
    check_continuous_for_entity_type(rows, "faculty", Config.MAX_CONTINUOUS_CLASS_MINUTES)
    \o check_continuous_for_entity_type(rows, "batch", Config.MAX_CONTINUOUS_CLASS_MINUTES)

\* _check_gap_for_entity_type
check_gap_for_entity_type(rows, entity_type, min_gap_minutes) ==
    LET groups == by_entity_by_day(entity_entries(rows, entity_type))
    IN Concat([g \in DOMAIN groups |->
           LET dm == groups[g].day_meetings
           IN Concat([i \in 1..(Len(dm) - 1) |->
                  LET gap == dm[i + 1].start_minutes - dm[i].end_minutes
                  IN IF gap > 0 /\ gap < min_gap_minutes
                     THEN << [type |-> "Min Gap Violation",
                              entity_type |-> capitalize(entity_type),
                              entity_name |-> entity_name_of(entity_type, groups[g].entity_id),
                              day |-> groups[g].day,
                              gap_start |-> minutes_to_time_str(dm[i].end_minutes),
                              gap_end |-> minutes_to_time_str(dm[i + 1].start_minutes),
                              gap_minutes |-> gap,
                              min_required |-> min_gap_minutes,
                              magnitude |-> min_gap_minutes - gap] >>
                     ELSE <<>>])])

\* check_min_gap: faculty, then batches.
check_min_gap(rows) ==
    check_gap_for_entity_type(rows, "faculty", Config.MIN_GAP_MINUTES)
    \o check_gap_for_entity_type(rows, "batch", Config.MIN_GAP_MINUTES)

\* banned_times.csv
banned_times_csv ==
    << [faculty_name |-> F2, day |-> <<"T", "u", "e", "s", "d", "a", "y">>,
        start_time |-> <<"0", "8", ":", "0", "0">>, end_time |-> <<"0", "9", ":", "0", "0">>],
       [faculty_name |-> <<>>, day |-> <<"F", "r", "i", "d", "a", "y">>,
        start_time |-> <<"0", "8", ":", "0", "0">>, end_time |-> <<"0", "8", ":", "3", "0">>] >>

\* ReferenceData._load_banned_times
banned_times ==
    [i \in DOMAIN banned_times_csv |->
        LET row == banned_times_csv[i]
        IN [faculty_name |-> IF isna(row.faculty_name) THEN <<>> ELSE strip(row.faculty_name),
            day |-> upper(strip(pystr(row.day))),
            start_time |-> pystr(row.start_time),
            end_time |-> pystr(row.end_time),
            start_minutes |-> time_to_minutes(row.start_time),
            end_minutes |-> time_to_minutes(row.end_time)]]

\* f"{start_time}-{end_time}"
time_range(start_time, end_time) == start_time \o <<"-">> \o end_time

\* check_banned_times without the test of the faculty a slot names.
check_banned_times_of_any_faculty(rows) ==
    Concat([b \in DOMAIN banned_times |->
        Concat([i \in DOMAIN rows |->
            LET banned == banned_times[b]
                meeting == rows[i]
                faculty_names_to_check ==
                    IF GetList(meeting, "all_faculty_names") # <<>>
                    THEN meeting.all_faculty_names
                    ELSE IF GetStr(meeting, "faculty_name") # NoneStr
                         THEN <<meeting.faculty_name>>
                         ELSE <<>>
            IN IF meeting.day # banned.day THEN <<>>
               ELSE IF check_overlap(meeting.start_minutes, meeting.end_minutes,
                                     banned.start_minutes, banned.end_minutes)
               THEN << [type |-> "Banned Time Violation",
                        entity_type |-> "Meeting",
                        entity_name |-> meeting.subject_name,
                        day |-> banned.day,
                        meeting_time |-> time_range(meeting.start_time, meeting.end_time),
                        banned_time |-> time_range(banned.start_time, banned.end_time),
                        applies_to |-> IF banned.faculty_name # <<>> THEN banned.faculty_name
                                       ELSE <<"A", "l", "l">>,
                        magnitude |-> calculate_overlap_duration(
                                          meeting.start_minutes, meeting.end_minutes,
                                          banned.start_minutes, banned.end_minutes)] >>
               ELSE <<>>])])

\* check_banned_times
check_banned_times(rows) ==
    Concat([b \in DOMAIN banned_times |->
        Concat([i \in DOMAIN rows |->
            LET banned == banned_times[b]
                meeting == rows[i]
                faculty_names_to_check ==
                    IF GetList(meeting, "all_faculty_names") # <<>>
                    THEN meeting.all_faculty_names
                    ELSE IF GetStr(meeting, "faculty_name") # NoneStr
                         THEN <<meeting.faculty_name>>
                         ELSE <<>>
            IN IF meeting.day # banned.day THEN <<>>
               ELSE IF /\ banned.faculty_name # <<>>
                       /\ banned.faculty_name \notin Range(faculty_names_to_check)
               THEN <<>>
               ELSE IF check_overlap(meeting.start_minutes, meeting.end_minutes,
                                     banned.start_minutes, banned.end_minutes)
               THEN << [type |-> "Banned Time Violation",
                        entity_type |-> "Meeting",
                        entity_name |-> meeting.subject_name,
                        day |-> banned.day,
                        meeting_time |-> time_range(meeting.start_time, meeting.end_time),
                        banned_time |-> time_range(banned.start_time, banned.end_time),
                        applies_to |-> IF banned.faculty_name # <<>> THEN banned.faculty_name
                                       ELSE <<"A", "l", "l">>,
                        magnitude |-> calculate_overlap_duration(
                                          meeting.start_minutes, meeting.end_minutes,
                                          banned.start_minutes, banned.end_minutes)] >>
               ELSE <<>>])])

Reverse(s) == [i \in DOMAIN s |-> s[Len(s) + 1 - i]]

\* The days on which both Sections meet, in the order the set of common days
\* is iterated.  That order follows the salted hashes of the day names; the
\* two orders modelled are the order of the lecture's days and its reverse.
common_days(lecture_section, lab_section, rev) ==
    LET lecture_days ==
            KeysInOrder([i \in DOMAIN lecture_section.meetings |-> lecture_section.meetings[i].day])
        lab_days == {lab_section.meetings[i].day : i \in DOMAIN lab_section.meetings}
        common == SelectSeq(lecture_days, LAMBDA d : d \in lab_days)
    IN IF rev THEN Reverse(common) ELSE common

\* room_name or room_id or 'N/A'
room_label(meeting) ==
    IF GetStr(meeting, "room_name") # NoneStr THEN meeting.room_name
    ELSE IF GetId(meeting, "room_id") \notin {None, 0} THEN IntText(meeting.room_id)
    ELSE <<"N", "/", "A">>

\* separation_of_meetings without the room test: back-to-back is enough.
separation_of_meetings_any_room(lecture_section, lab_section, day, lec_m, lab_m) ==
    LET is_back_to_back == \/ lec_m.end_minutes = lab_m.start_minutes
                           \/ lab_m.end_minutes = lec_m.start_minutes
    IN IF ~is_back_to_back
       THEN << [type |-> "Lecture-Lab Separation",
                entity_type |-> "Section",
                entity_name |-> lecture_section.section_id \o <<" ", "+", " ">>
                                \o lab_section.section_id,
                day |-> day,
                lecture_time |-> time_range(lec_m.start_time, lec_m.end_time),
                lab_time |-> time_range(lab_m.start_time, lab_m.end_time),
                lecture_room |-> room_label(lec_m),
                lab_room |-> room_label(lab_m),
                magnitude |-> 1] >>
       ELSE <<>>

\* separation_of_meetings in which two meetings without a room count as
\* being in the same room.
separation_of_meetings_null_rooms_equal(lecture_section, lab_section, day, lec_m, lab_m) ==
    LET is_back_to_back == \/ lec_m.end_minutes = lab_m.start_minutes
                           \/ lab_m.end_minutes = lec_m.start_minutes
        same_room == GetId(lec_m, "room_id") = GetId(lab_m, "room_id")
    IN IF ~is_back_to_back \/ ~same_room
       THEN << [type |-> "Lecture-Lab Separation",
                entity_type |-> "Section",
                entity_name |-> lecture_section.section_id \o <<" ", "+", " ">>
                                \o lab_section.section_id,
                day |-> day,
                lecture_time |-> time_range(lec_m.start_time, lec_m.end_time),
                lab_time |-> time_range(lab_m.start_time, lab_m.end_time),
                lecture_room |-> room_label(lec_m),
                lab_room |-> room_label(lab_m),
                magnitude |-> 1] >>
       ELSE <<>>

\* The body of the innermost loop of check_lecture_lab_separation: the
\* violation, if any, of one lecture meeting and one lab meeting of a day.
separation_of_meetings(lecture_section, lab_section, day, lec_m, lab_m) ==
    LET is_back_to_back == \/ lec_m.end_minutes = lab_m.start_minutes
                           \/ lab_m.end_minutes = lec_m.start_minutes
        lec_room_id == GetId(lec_m, "room_id")
        lab_room_id == GetId(lab_m, "room_id")
        same_room == lec_room_id = lab_room_id /\ lec_room_id # None
    IN IF ~is_back_to_back \/ ~same_room
       THEN << [type |-> "Lecture-Lab Separation",
                entity_type |-> "Section",
                entity_name |-> lecture_section.section_id \o <<" ", "+", " ">>
                                \o lab_section.section_id,
                day |-> day,
                lecture_time |-> time_range(lec_m.start_time, lec_m.end_time),
                lab_time |-> time_range(lab_m.start_time, lab_m.end_time),
                lecture_room |-> room_label(lec_m),
                lab_room |-> room_label(lab_m),
                magnitude |-> 1] >>
       ELSE <<>>

\* check_lecture_lab_separation over the valid pairs.
check_lecture_lab_separation(pairs, secs, rev) ==
    Concat([p \in DOMAIN pairs |->
        LET lecture_section == secs[pairs[p].lecture_section]
            lab_section == secs[pairs[p].lab_section]
            days == common_days(lecture_section, lab_section, rev)
        IN Concat([d \in DOMAIN days |->
               LET lec_meetings == SelectSeq(lecture_section.meetings, LAMBDA m : m.day = days[d])
                   lab_meetings == SelectSeq(lab_section.meetings, LAMBDA m : m.day = days[d])
               IN Concat([i \in DOMAIN lec_meetings |->
                      Concat([j \in DOMAIN lab_meetings |->
                          separation_of_meetings(lecture_section, lab_section, days[d],
                                                 lec_meetings[i], lab_meetings[j])])])])])

\* check_all_hard_constraints
check_all_hard_constraints(rows, secs, pairs, rev) ==
    check_faculty_time_conflicts(rows)
    \o check_batch_time_conflicts(rows)
    \o check_room_time_conflicts(rows)
    \o check_room_capacity(secs)
    \o check_max_continuous_class(rows)
    \o check_min_gap(rows)
    \o check_banned_times(rows)
    \o check_lecture_lab_separation(pairs, secs, rev)

-----------------------------------------------------------------------------
(* soft_constraints.py.  Violations carry magnitude and penalty; the        *)
(* details text is left out.                                                *)

RECURSIVE Power(_, _)
Power(base, exponent) == IF exponent = 0 THEN 1 ELSE base * Power(base, exponent - 1)

\* apply_penalty without the test of raw_count <= 0.
apply_penalty_unguarded(raw_count, penalty_weight) ==
    Power(raw_count, Config.PENALTY_EXPONENT) * penalty_weight

\* Config.apply_penalty
apply_penalty(raw_count, penalty_weight) ==
    IF raw_count <= 0 THEN 0
    ELSE Power(raw_count, Config.PENALTY_EXPONENT) * penalty_weight

\* faculty_minutes of the load checks: per faculty_id (keys in order of first
\* appearance) the summed end_minutes - start_minutes of its rows.
faculty_minutes(rows) ==
    LET taught == SelectSeq(rows, LAMBDA r : r.faculty_id # None)
        ids == KeysInOrder([i \in DOMAIN taught |-> taught[i].faculty_id])
    IN [k \in DOMAIN ids |->
           [faculty_id |-> ids[k],
            total_minutes |->
                SumSeq([i \in DOMAIN taught |->
                           IF taught[i].faculty_id = ids[k]
                           THEN taught[i].end_minutes - taught[i].start_minutes
                           ELSE 0])]]

\* check_faculty_overload.  The limit is read from max_hours_per_week, a key
\* the faculty catalog does not hold, so the limit is 0 and nothing is added.
check_faculty_overload(rows) ==
    LET totals == faculty_minutes(rows)
    IN Concat([k \in DOMAIN totals |->
           LET faculty_data == faculty_by_id[totals[k].faculty_id]
               max_minutes == GetNum(faculty_data, "max_hours_per_week") * 60
           IN IF max_minutes > 0 /\ totals[k].total_minutes > max_minutes
              THEN << [type |-> "Faculty Overload",
                       entity_type |-> "Faculty",
                       entity_name |-> faculty_data.faculty_name,
                       total_minutes |-> totals[k].total_minutes,
                       max_minutes |-> max_minutes,
                       magnitude |-> totals[k].total_minutes - max_minutes] >>
              ELSE <<>>])

\* check_faculty_underfill, over every faculty of the catalog; the limit is
\* read from min_hours_per_week, which the catalog does not hold.
check_faculty_underfill(rows) ==
    LET totals == faculty_minutes(rows)
    IN Concat([f \in DOMAIN faculty_loaded |->
           LET faculty_data == faculty_by_id[faculty_loaded[f].faculty_id]
               min_minutes == GetNum(faculty_data, "min_hours_per_week") * 60
               total_minutes ==
                   SumSeq([k \in DOMAIN totals |->
                              IF totals[k].faculty_id = faculty_data.faculty_id
                              THEN totals[k].total_minutes ELSE 0])
           IN IF min_minutes > 0 /\ total_minutes < min_minutes
              THEN << [type |-> "Faculty Underfill",
                       entity_type |-> "Faculty",
                       entity_name |-> faculty_data.faculty_name,
                       total_minutes |-> total_minutes,
                       min_minutes |-> min_minutes,
                       magnitude |-> min_minutes - total_minutes] >>
              ELSE <<>>])

\* check_section_overfill: optimal_capacity falls back to capacity.
check_section_overfill(secs) ==
    Concat([s \in DOMAIN secs |->
        IF secs[s].room_id = None THEN <<>>
        ELSE LET room_data == rooms_by_id[secs[s].room_id]
                 optimal_capacity == IF "optimal_capacity" \in DOMAIN room_data
                                     THEN room_data.optimal_capacity
                                     ELSE GetNum(room_data, "capacity")
             IN IF optimal_capacity # 0 /\ secs[s].total_students > optimal_capacity
                THEN << [type |-> "Section Overfill",
                         entity_type |-> "Section",
                         entity_name |-> secs[s].section_id,
                         subject |-> secs[s].subject_name,
                         room |-> secs[s].room_name,
                         total_students |-> secs[s].total_students,
                         optimal_capacity |-> optimal_capacity,
                         magnitude |-> secs[s].total_students - optimal_capacity,
                         penalty |-> apply_penalty(secs[s].total_students - optimal_capacity,
                                                   Config.SECTION_OVERFILL_PER_STUDENT)] >>
                ELSE <<>>])

\* check_section_underfill: min_capacity is a key the room catalog does not hold.
check_section_underfill(secs) ==
    Concat([s \in DOMAIN secs |->
        IF secs[s].room_id = None THEN <<>>
        ELSE LET min_capacity == GetNum(rooms_by_id[secs[s].room_id], "min_capacity")
             IN IF min_capacity # 0 /\ secs[s].total_students < min_capacity
                THEN << [type |-> "Section Underfill",
                         entity_type |-> "Section",
                         entity_name |-> secs[s].section_id,
                         subject |-> secs[s].subject_name,
                         room |-> secs[s].room_name,
                         total_students |-> secs[s].total_students,
                         min_capacity |-> min_capacity,
                         magnitude |-> min_capacity - secs[s].total_students,
                         penalty |-> apply_penalty(min_capacity - secs[s].total_students,
                                                   Config.SECTION_UNDERFILL_PER_STUDENT)] >>
                ELSE <<>>])

\* by_entity as the soft checks fill it: a meeting is listed under its single
\* <type>_id only.
single_entity_entries(rows, entity_type) ==
    LET with_id == SelectSeq(rows, LAMBDA r : GetId(r, entity_type \o "_id") # None)
    IN [i \in DOMAIN with_id |->
           [entity_id |-> with_id[i][entity_type \o "_id"], row |-> with_id[i]]]

\* continuous_blocks in which a meeting that starts at or before block_end
\* extends the block.
RECURSIVE continuous_blocks_joining_overlaps(_, _, _, _)
continuous_blocks_joining_overlaps(dm, i, block_start, block_end) ==
    IF i > Len(dm) THEN <<[block_start |-> block_start, block_end |-> block_end]>>
    ELSE IF dm[i].start_minutes <= block_end
         THEN continuous_blocks_joining_overlaps(dm, i + 1, block_start, dm[i].end_minutes)
         ELSE <<[block_start |-> block_start, block_end |-> block_end]>>
              \o continuous_blocks_joining_overlaps(dm, i + 1, dm[i].start_minutes,
                                                    dm[i].end_minutes)

\* The continuous blocks _check_min_continuous_for_entity finds from meeting
\* i on: a meeting that starts at block_end extends the block.
RECURSIVE continuous_blocks(_, _, _, _)
continuous_blocks(dm, i, block_start, block_end) ==
    IF i > Len(dm) THEN <<[block_start |-> block_start, block_end |-> block_end]>>
    ELSE IF dm[i].start_minutes = block_end
         THEN continuous_blocks(dm, i + 1, block_start, dm[i].end_minutes)
         ELSE <<[block_start |-> block_start, block_end |-> block_end]>>
              \o continuous_blocks(dm, i + 1, dm[i].start_minutes, dm[i].end_minutes)

\* _check_min_continuous_for_entity
check_min_continuous_for_entity(rows, entity_type, min_minutes) ==
    LET groups == by_entity_by_day(single_entity_entries(rows, entity_type))
    IN Concat([g \in DOMAIN groups |->
           LET dm == groups[g].day_meetings
               blocks == continuous_blocks(dm, 2, dm[1].start_minutes, dm[1].end_minutes)
           IN Concat([b \in DOMAIN blocks |->
                  LET block_duration == blocks[b].block_end - blocks[b].block_start
                  IN IF block_duration > 0 /\ block_duration < min_minutes
                     THEN << [type |-> "Min Continuous Class",
                              entity_type |-> capitalize(entity_type),
                              entity_name |-> entity_name_of(entity_type, groups[g].entity_id),
                              day |-> groups[g].day,
                              block_start |-> minutes_to_time_str(blocks[b].block_start),
                              block_end |-> minutes_to_time_str(blocks[b].block_end),
                              block_duration |-> block_duration,
                              min_required |-> min_minutes,
                              magnitude |-> min_minutes - block_duration,
                              penalty |-> apply_penalty(min_minutes - block_duration,
                                              Config.MIN_CONTINUOUS_PENALTY_PER_MINUTE)] >>
                     ELSE <<>>])])

\* check_min_continuous_class: faculty, then batches.
check_min_continuous_class(rows) ==
    check_min_continuous_for_entity(rows, "faculty", Config.MIN_CONTINUOUS_CLASS_MINUTES)
    \o check_min_continuous_for_entity(rows, "batch", Config.MIN_CONTINUOUS_CLASS_MINUTES)

\* _check_excess_gap_for_entity
check_excess_gap_for_entity(rows, entity_type, excess_threshold) ==
    LET groups == by_entity_by_day(single_entity_entries(rows, entity_type))
    IN Concat([g \in DOMAIN groups |->
           LET dm == groups[g].day_meetings
           IN Concat([i \in 1..(Len(dm) - 1) |->
                  LET gap == dm[i + 1].start_minutes - dm[i].end_minutes
                  IN IF gap > excess_threshold
                     THEN << [type |-> "Excess Gap",
                              entity_type |-> capitalize(entity_type),
                              entity_name |-> entity_name_of(entity_type, groups[g].entity_id),
                              day |-> groups[g].day,
                              gap_start |-> minutes_to_time_str(dm[i].end_minutes),
                              gap_end |-> minutes_to_time_str(dm[i + 1].start_minutes),
                              gap_minutes |-> gap,
                              threshold |-> excess_threshold,
                              magnitude |-> gap - excess_threshold,
                              penalty |-> apply_penalty(gap - excess_threshold,
                                              Config.EXCESS_GAP_PENALTY_PER_MINUTE)] >>
                     ELSE <<>>])])

\* check_excess_gap: faculty, then batches.
check_excess_gap(rows) ==
    check_excess_gap_for_entity(rows, "faculty", Config.EXCESS_GAP_MINUTES)
    \o check_excess_gap_for_entity(rows, "batch", Config.EXCESS_GAP_MINUTES)

\* check_non_preferred_subject: one violation per (faculty, subject) whose
\* faculty has preferences that do not hold the subject; magnitude is the
\* number of meetings under that key, penalty the weight times that number.
check_non_preferred_subject(rows) ==
    LET non_preferred ==
            SelectSeq(rows, LAMBDA r :
                /\ r.faculty_id # None
                /\ r.subject_id # None
                /\ faculty_by_id[r.faculty_id].preferred_subjects # <<>>
                /\ r.subject_id \notin Range(faculty_by_id[r.faculty_id].preferred_subjects))
        keys == KeysInOrder([i \in DOMAIN non_preferred |->
                                <<non_preferred[i].faculty_id, non_preferred[i].subject_id>>])
    IN [k \in DOMAIN keys |->
           LET num_sections ==
                   Len(SelectSeq(non_preferred,
                                 LAMBDA r : <<r.faculty_id, r.subject_id>> = keys[k]))
           IN [type |-> "Non-Preferred Subject",
               entity_type |-> "Faculty",
               entity_name |-> faculty_by_id[keys[k][1]].faculty_name,
               subject |-> subjects_by_id[keys[k][2]].subject_name,
               magnitude |-> num_sections,
               penalty |-> Config.NON_PREFERRED_SUBJECT_PENALTY * num_sections]]

\* check_friday_late_classes
check_friday_late_classes(rows) ==
    Concat([i \in DOMAIN rows |->
        IF /\ upper(rows[i].day) \in {<<"F", "R", "I", "D", "A", "Y">>, <<"F", "R", "I">>}
           /\ rows[i].end_minutes > Config.FRIDAY_LATE_MINUTES
        THEN << [type |-> "Friday Late Class",
                 entity_type |-> "Meeting",
                 entity_name |-> rows[i].subject_name,
                 day |-> rows[i].day,
                 time |-> time_range(rows[i].start_time, rows[i].end_time),
                 end_minutes |-> rows[i].end_minutes,
                 threshold |-> Config.FRIDAY_LATE_MINUTES,
                 magnitude |-> rows[i].end_minutes - Config.FRIDAY_LATE_MINUTES,
                 penalty |-> apply_penalty(rows[i].end_minutes - Config.FRIDAY_LATE_MINUTES,
                                           Config.FRIDAY_LATE_PENALTY_PER_MINUTE)] >>
        ELSE <<>>])

\* str.rstrip(chars): trailing characters of the set chars dropped.
RECURSIVE rstrip_chars(_, _)
rstrip_chars(s, chars) ==
    IF s # <<>> /\ s[Len(s)] \in chars
    THEN rstrip_chars(SubSeq(s, 1, Len(s) - 1), chars)
    ELSE s

\* get_base_subject_name
get_base_subject_name(subject_name, subject_id) ==
    IF subject_id = None
    THEN LET name == remove(upper(subject_name), "_")
             ends_with_L == name # <<>> /\ name[Len(name)] = "L"
             ends_with_LAB == Len(name) >= 3
                              /\ SubSeq(name, Len(name) - 2, Len(name)) = <<"L", "A", "B">>
         IN IF ends_with_L \/ ends_with_LAB
            THEN rstrip_chars(rstrip_chars(name, {"L"}), {"A", "B"})
            ELSE subject_name
    ELSE LET linked_id == IF subject_id \in DOMAIN subjects_by_id
                          THEN subjects_by_id[subject_id].linked_subject_id
                          ELSE None
         IN IF linked_id # None /\ linked_id # 0
            THEN IF linked_id \in DOMAIN subjects_by_id
                 THEN subjects_by_id[linked_id].subject_name
                 ELSE subject_name
            ELSE subject_name

\* check_excess_subjects: per faculty the set of base subject names, compared
\* with Config.MAX_SUBJECTS_PER_FACULTY.
check_excess_subjects(rows) ==
    LET taught == SelectSeq(rows, LAMBDA r : r.faculty_id # None)
        ids == KeysInOrder([i \in DOMAIN taught |-> taught[i].faculty_id])
    IN Concat([k \in DOMAIN ids |->
           LET base_subjects ==
                   {get_base_subject_name(taught[i].subject_name, taught[i].subject_id) :
                       i \in {j \in DOMAIN taught : taught[j].faculty_id = ids[k]}}
               excess == Cardinality(base_subjects) - Config.MAX_SUBJECTS_PER_FACULTY
           IN IF excess > 0
              THEN << [type |-> "Excess Subjects",
                       entity_type |-> "Faculty",
                       entity_name |-> faculty_by_id[ids[k]].faculty_name,
                       subject_count |-> Cardinality(base_subjects),
                       max_allowed |-> Config.MAX_SUBJECTS_PER_FACULTY,
                       magnitude |-> excess,
                       penalty |-> apply_penalty(excess,
                                       Config.EXCESS_SUBJECTS_PENALTY_PER_SUBJECT)] >>
              ELSE <<>>])

\* The loops of check_external_meeting_conflicts over the external meetings
\* of the reference data and the rows: a violation for every row of the
\* external meeting's faculty and day that passes the overlap test, with the
\* overlap as computed there (min of the ends - max of the starts).
external_meeting_conflicts(rows, external_meetings) ==
    Concat([e \in DOMAIN external_meetings |->
        Concat([i \in DOMAIN rows |->
            LET ext == external_meetings[e]
                meeting == rows[i]
                overlap == Min(meeting.end_minutes, ext.end_minutes)
                           - Max(meeting.start_minutes, ext.start_minutes)
            IN IF meeting.faculty_name # ext.faculty_name THEN <<>>
               ELSE IF meeting.day # ext.day THEN <<>>
               ELSE IF /\ meeting.start_minutes < ext.end_minutes
                       /\ ext.start_minutes < meeting.end_minutes
               THEN << [type |-> "External Meeting Conflict",
                        entity_type |-> "Faculty",
                        entity_name |-> ext.faculty_name,
                        day |-> ext.day,
                        magnitude |-> overlap,
                        penalty |-> apply_penalty(overlap,
                                        Config.EXTERNAL_MEETING_CONFLICT_PENALTY_PER_MINUTE)] >>
               ELSE <<>>])])

\* check_external_meeting_conflicts: ReferenceData has no external_meetings,
\* so the check returns the empty list.
check_external_meeting_conflicts(rows) == <<>>

\* check_all_soft_constraints
check_all_soft_constraints(rows, secs) ==
    check_faculty_overload(rows)
    \o check_faculty_underfill(rows)
    \o check_section_overfill(secs)
    \o check_section_underfill(secs)
    \o check_min_continuous_class(rows)
    \o check_excess_gap(rows)
    \o check_non_preferred_subject(rows)
    \o check_friday_late_classes(rows)
    \o check_excess_subjects(rows)
    \o check_external_meeting_conflicts(rows)

-----------------------------------------------------------------------------
(* reporter.py and the value main() returns.                               *)

\* generate_violations_summary: the totals and the feasibility line.
generate_violations_summary(hard, soft) ==
    [hard_total |-> Len(hard),
     soft_total |-> Len(soft),
     total_penalty |-> SumSeq([i \in DOMAIN soft |-> GetNum(soft[i], "penalty")]),
     status |-> IF Len(hard) = 0 THEN "FEASIBLE" ELSE "INFEASIBLE"]

\* generate_structural_violations_csv raises TypeError.  It is called when
\* there are Meetings and Sections; for a Meeting without faculty id, batch
\* id list or room id it joins all_batch_names, which is None (not a list)
\* in a Meeting that comes from a single row naming fewer than two batches,
\* and such a Meeting has no batch id list.
structural_report_raises(rows, secs) ==
    /\ rows # <<>>
    /\ secs # <<>>
    /\ \E i \in DOMAIN rows :
          /\ "merged_from_rows" \notin DOMAIN rows[i]
          /\ \/ rows[i].faculty_id = None
             \/ GetList(rows[i], "all_batch_ids") = <<>>
             \/ rows[i].room_id = None
          /\ GetList(rows[i], "all_batch_names") = <<>>

\* return_value with the soft violations counted in the feasible flag.
return_value_counting_soft(hard, soft) ==
    [returned |-> TRUE, value |-> "dict",
     hard_violations |-> hard,
     soft_violations |-> soft,
     feasible |-> Len(hard) = 0 /\ Len(soft) = 0]

\* The dict main() returns at the end of a run; its other entries are the
\* lists held in the variables.
return_value(hard, soft) ==
    [returned |-> TRUE, value |-> "dict",
     hard_violations |-> hard,
     soft_violations |-> soft,
     feasible |-> Len(hard) = 0]

-----------------------------------------------------------------------------
(* The schedule file.                                                      *)

MON == <<"M", "o", "n", "d", "a", "y">>
TUE == <<"T", "U", "E", "S", "D", "A", "Y">>
T0800 == <<"0", "8", ":", "0", "0">>
T800 == <<"8", ":", "0", "0">>
T0830 == <<"0", "8", ":", "3", "0">>
T0900 == <<"0", "9", ":", "0", "0">>
T0930 == <<"0", "9", ":", "3", "0">>
T1000 == <<"1", "0", ":", "0", "0">>
NaN == <<>>

\* One line of schedule.csv as pandas hands it to _map_row.
Row(subject, faculty, room, batches, day, start, end) ==
    [subject_name |-> subject, faculty_name |-> faculty, room_name |-> room,
     batch_names |-> batches, day |-> day, start_time |-> start, end_time |-> end]

\* Rows for the loader: the same meeting written several ways (subject name
\* spelt differently, start time "08:00" and "8:00"), with different faculty,
\* rooms and batch fields, a row with no faculty, room or batch, an unknown
\* subject, and a row without subject.
LoaderRows ==
    { Row(ICS103, F1, R1, B1, MON, T0800, T0900),
      Row(<<"i", "c", "s", "1", "0", "3">>, F2, R1, B2, MON, T0800, T0900),
      Row(ICS103, F1, R2, B1 \o <<" ", "(", "4", "5", ")", ";">> \o B2, MON, T0800, T0900),
      Row(ICS103, F1, R1, B2, MON, T800, T0900),
      Row(ICS103, NaN, NaN, NaN, MON, T0800, T0900),
      Row(<<"X", "Y", "Z">>, F1, R1, B1, MON, T0800, T0900),
      Row(ICS103, F1, R1, B1, TUE, T0800, T0900),
      Row(NaN, F1, R1, B1, MON, T0800, T0900) }

\* Rows for the section builder: a lecture with id 0 and its lab, a lecture
\* with labs of the same and of another faculty, batch fields that list the
\* same batches in another order and one batch twice, a row with no faculty
\* and no batch, and an unknown subject.
SectionRows ==
    { Row(CS1, F1, R1, B1, MON, T0800, T0900),
      Row(CS1L, F1, R1, B1, MON, T0900, T1000),
      Row(ICS103, F1, R1, B1 \o <<";">> \o B2, MON, T0800, T0900),
      Row(ICS103L, F1, R1, B2 \o <<";">> \o B1, MON, T0900, T1000),
      Row(ICS103L, F2, R2, B1 \o <<";">> \o B2, TUE, T0800, T0900),
      Row(ICS103, F1, R2, B2 \o <<";">> \o B1 \o <<";">> \o B1, TUE, T0800, T0900),
      Row(ICS103, F1, R1, B1, MON, T0900, T1000),
      Row(ICS103, NaN, NaN, NaN, TUE, T0900, T1000),
      Row(<<"X", "Y", "Z">>, F1, R1, B1, TUE, T0900, T1000) }

\* Rows for the hard checks: a lecture and labs of it that follow it in the
\* same room, in another room, in no room, overlap it, are held another day
\* or by another faculty, the lecture in no room, and the lecture with its
\* batch listed twice.
HardRows ==
    { Row(ICS103, F1, R1, B1, MON, T0800, T0900),
      Row(ICS103L, F1, R1, B1, MON, T0900, T1000),
      Row(ICS103L, F1, R2, B1, MON, T0900, T1000),
      Row(ICS103L, F1, NaN, B1, MON, T0900, T1000),
      Row(ICS103, F1, NaN, B1, MON, T0800, T0900),
      Row(ICS103L, F1, R1, B1, MON, T0830, T0930),
      Row(ICS103L, F1, R1, B1, TUE, T0800, T0900),
      Row(ICS103L, F2, R1, B1, MON, T0930, T1000),
      Row(ICS103, F1, R1, B1 \o <<";">> \o B1, MON, T0800, T0900) }

\* Rows for the whole run: meetings that are free of hard violations, two
\* rows of one meeting with different faculty, an overlapping meeting of a
\* subject its faculty does not prefer, and a late Friday class in a room that
\* is too small.
ScheduleRows ==
    { Row(ICS103, F1, R1, B2, MON, T0800, T0900),
      Row(ICS103, F2, R1, B2, MON, T0800, T0900),
      Row(ICS103L, F1, R1, B2, MON, T0900, T1000),
      Row(CS1, F1, R1, B2, MON, T0830, T0930),
      Row(CS1, F1, R1, B2, TUE, T0830, T0930),
      Row(ICS103, F1, R2, B1, <<"F", "r", "i", "d", "a", "y">>,
          <<"1", "2", ":", "0", "0">>, <<"1", "3", ":", "0", "0">>),
      Row(NaN, F1, R1, B1, MON, T0800, T0900),
      Row(<<"X", "Y", "Z">>, <<"F", "X">>, <<"R", "X">>, <<"B", "X", ";">> \o B2,
          MON, T0830, T0930) }

FRI == <<"F", "r", "i", "d", "a", "y">>
T0920 == <<"0", "9", ":", "2", "0">>
T1130 == <<"1", "1", ":", "3", "0">>
T1150 == <<"1", "1", ":", "5", "0">>
T1230 == <<"1", "2", ":", "3", "0">>
T1300 == <<"1", "3", ":", "0", "0">>
T1400 == <<"1", "4", ":", "0", "0">>

\* Rows for the checks of blocks, gaps and banned times: meetings that follow
\* each other at once (a block of 210 minutes), after 20 minutes and after
\* 30 minutes, a meeting of 210 minutes whose batch is listed twice, two
\* rows of one Tuesday meeting with different faculty inside the banned time
\* of F2, a meeting of F2 that starts when that banned time ends, a Friday
\* meeting inside the banned time of everyone, and a meeting that ends before
\* it starts whose batch is listed twice.
TimeRows ==
    { Row(ICS103, F1, R1, B1, MON, T0800, T1000),
      Row(ICS103L, F1, R1, B1, MON, T1000, T1130),
      Row(CS1, F1, R2, B2, MON, T1150, T1230),
      Row(CS1L, F2, R2, B2, MON, T1300, T1400),
      Row(ICS103, F1, R1, B1 \o <<";">> \o B1, MON, T0800, T1130),
      Row(ICS103, F2, R1, B2, TUE, T0830, T0930),
      Row(ICS103, F1, R1, B2, TUE, T0830, T0930),
      Row(CS1, F2, R1, B1, TUE, T0900, T1000),
      Row(CS1, F1, R1, B1, FRI, T0800, T0900),
      Row(CS1, F1, R1, B2 \o <<";">> \o B2, MON, T0920, T0900) }

-----------------------------------------------------------------------------
(* main() of evaluator.py, one action per phase.                           *)

Init ==
    /\ csv = <<>>
    /\ pc = "input"
    /\ unmerged_rows = <<>>
    /\ schedule_rows = <<>>
    /\ unmapped_subjects = {}
    /\ data_conflicts = <<>>
    /\ sections = <<>>
    /\ valid_pairs = <<>>
    /\ error_pairs = <<>>
    /\ hard_violations = <<>>
    /\ soft_violations = <<>>
    /\ summary = [written |-> FALSE]
    /\ result = [returned |-> FALSE]
    /\ call = [function |-> "main"]
    /\ ret = [returned |-> FALSE]

\* The schedule file holds one more row.
ReadRow(row) ==
    /\ pc = "input"
    /\ Len(csv) < MaxRows
    /\ csv' = Append(csv, row)
    /\ UNCHANGED <<call, ret>>
    /\ UNCHANGED <<pc, unmerged_rows, schedule_rows, unmapped_subjects, data_conflicts,
                   sections, valid_pairs, error_pairs, hard_violations, soft_violations,
                   summary, result>>

\* Phase 3: ScheduleLoader.load, then main's test of the loaded rows: with no
\* meeting main returns None.
Load ==
    /\ pc = "input"
    /\ \E rev \in BOOLEAN :
          /\ unmerged_rows' = map_rows(csv)
          /\ schedule_rows' = unify_meetings(map_rows(csv), rev)
          /\ data_conflicts' = unify_conflicts(map_rows(csv), rev)
    /\ unmapped_subjects' = unmapped_of(csv)
    /\ pc' = IF schedule_rows' = <<>> THEN "aborted" ELSE "sections"
    /\ result' = IF schedule_rows' = <<>> THEN [returned |-> TRUE, value |-> "None"] ELSE result
    /\ UNCHANGED <<call, ret>>
    /\ UNCHANGED <<csv, sections, valid_pairs, error_pairs, hard_violations, soft_violations,
                   summary>>

\* Phase 4, first half: build_sections.
BuildSections ==
    /\ pc = "sections"
    /\ sections' = build_sections(schedule_rows)
    /\ pc' = "pairs"
    /\ UNCHANGED <<call, ret>>
    /\ UNCHANGED <<csv, unmerged_rows, schedule_rows, unmapped_subjects, data_conflicts,
                   valid_pairs, error_pairs, hard_violations, soft_violations, summary, result>>

\* Phase 4, second half: find_lecture_lab_pairs.
FindPairs ==
    /\ pc = "pairs"
    /\ valid_pairs' = find_lecture_lab_pairs(sections).valid_pairs
    /\ error_pairs' = find_lecture_lab_pairs(sections).error_pairs
    /\ pc' = "hard"
    /\ UNCHANGED <<call, ret>>
    /\ UNCHANGED <<csv, unmerged_rows, schedule_rows, unmapped_subjects, data_conflicts,
                   sections, hard_violations, soft_violations, summary, result>>

\* CheckHard with checks that sort the unified list itself by start time
\* instead of their own per-day lists.
CheckHard_sorting_the_list ==
    /\ pc = "hard"
    /\ \E rev \in BOOLEAN :
          hard_violations' = check_all_hard_constraints(schedule_rows, sections, valid_pairs, rev)
    /\ schedule_rows' = SortByKey(schedule_rows,
                                  [i \in DOMAIN schedule_rows |-> schedule_rows[i].start_minutes])
    /\ pc' = "soft"
    /\ UNCHANGED <<call, ret>>
    /\ UNCHANGED <<csv, unmerged_rows, unmapped_subjects, data_conflicts,
                   sections, valid_pairs, error_pairs, soft_violations, summary, result>>

\* Phase 5, first half: check_all_hard_constraints.
CheckHard ==
    /\ pc = "hard"
    /\ \E rev \in BOOLEAN :
          hard_violations' = check_all_hard_constraints(schedule_rows, sections, valid_pairs, rev)
    /\ pc' = "soft"
    /\ UNCHANGED <<call, ret>>
    /\ UNCHANGED <<csv, unmerged_rows, schedule_rows, unmapped_subjects, data_conflicts,
                   sections, valid_pairs, error_pairs, soft_violations, summary, result>>

\* Phase 5, second half: check_all_soft_constraints.
CheckSoft ==
    /\ pc = "soft"
    /\ soft_violations' = check_all_soft_constraints(schedule_rows, sections)
    /\ pc' = "report"
    /\ UNCHANGED <<call, ret>>
    /\ UNCHANGED <<csv, unmerged_rows, schedule_rows, unmapped_subjects, data_conflicts,
                   sections, valid_pairs, error_pairs, hard_violations, summary, result>>

\* generate_reports, then the return of main(): the violation files and the
\* summary are written first; when the structural report raises, the
\* exception leaves main() and nothing is returned.
Report ==
    /\ pc = "report"
    /\ summary' = [written |-> TRUE]
                   @@ generate_violations_summary(hard_violations, soft_violations)
    /\ IF structural_report_raises(schedule_rows, sections)
       THEN /\ result' = [returned |-> FALSE, raised |-> "TypeError"]
            /\ pc' = "raised"
       ELSE /\ result' = return_value(hard_violations, soft_violations)
            /\ pc' = "done"
    /\ UNCHANGED <<call, ret>>
    /\ UNCHANGED <<csv, unmerged_rows, schedule_rows, unmapped_subjects, data_conflicts,
                   sections, valid_pairs, error_pairs, hard_violations, soft_violations>>

\* The loader alone, on the loader's rows.
NextLoader == (\E row \in LoaderRows : ReadRow(row)) \/ Load
SpecLoader == Init /\ [][NextLoader]_vars

\* The run up to the lecture-lab pairs, on the section builder's rows.
NextSections ==
    \/ \E row \in SectionRows : ReadRow(row)
    \/ Load
    \/ BuildSections
    \/ FindPairs
SpecSections == Init /\ [][NextSections]_vars

\* The run up to the hard constraints, on the hard checks' rows.
NextHard ==
    \/ \E row \in HardRows : ReadRow(row)
    \/ Load
    \/ BuildSections
    \/ FindPairs
    \/ CheckHard
SpecHard == Init /\ [][NextHard]_vars

\* The run up to the hard constraints, on the rows for blocks, gaps and
\* banned times.
NextTimes ==
    \/ \E row \in TimeRows : ReadRow(row)
    \/ Load
    \/ BuildSections
    \/ FindPairs
    \/ CheckHard
SpecTimes == Init /\ [][NextTimes]_vars

\* The whole run of main().
Next ==
    \/ \E row \in ScheduleRows : ReadRow(row)
    \/ Load
    \/ BuildSections
    \/ FindPairs
    \/ CheckHard
    \/ CheckSoft
    \/ Report
Spec == Init /\ [][Next]_vars

\* main() is straight-line code whose loops run over finite lists: once the
\* schedule is loaded, every phase that can run does run.  This is weak
\* fairness of the phases, WF_vars(Phases), written out: a phase can run
\* exactly while pc is one of "sections", "pairs", "hard", "soft", "report",
\* so either pc is infinitely often none of these or a phase runs infinitely
\* often.
Phases == BuildSections \/ FindPairs \/ CheckHard \/ CheckSoft \/ Report
PhasePending == pc \in {"sections", "pairs", "hard", "soft", "report"}
SpecLive == Spec /\ ([]<>(~PhasePending) \/ []<><<Phases>>_vars)

-----------------------------------------------------------------------------
(* The helper functions called on their own: Init draws the arguments, the *)
(* action is the call.                                                     *)

pipeline == <<csv, unmerged_rows, schedule_rows, unmapped_subjects, data_conflicts,
              sections, valid_pairs, error_pairs, hard_violations, soft_violations,
              summary, result>>

\* No run of main() is in progress: its variables are as Init leaves them.
NoRun ==
    /\ csv = <<>>
    /\ unmerged_rows = <<>>
    /\ schedule_rows = <<>>
    /\ unmapped_subjects = {}
    /\ data_conflicts = <<>>
    /\ sections = <<>>
    /\ valid_pairs = <<>>
    /\ error_pairs = <<>>
    /\ hard_violations = <<>>
    /\ soft_violations = <<>>
    /\ summary = [written |-> FALSE]
    /\ result = [returned |-> FALSE]

\* The value a call returned.
Returned(function, value) == [returned |-> TRUE, function |-> function, value |-> value]

\* Largest minute of the intervals handed to the overlap functions.
MaxMinute == 3

\* Two intervals of minutes, the end not necessarily after the start (the
\* loader takes the times of a row as they parse).
InitOverlap ==
    /\ NoRun
    /\ pc = "call"
    /\ call \in [start1 : 0..MaxMinute, end1 : 0..MaxMinute,
                 start2 : 0..MaxMinute, end2 : 0..MaxMinute]
    /\ ret = [returned |-> FALSE]

CallCheckOverlap ==
    /\ pc = "call"
    /\ ret' = Returned("check_overlap",
                       check_overlap(call.start1, call.end1, call.start2, call.end2))
    /\ pc' = "returned"
    /\ UNCHANGED <<call, pipeline>>

CallCalculateOverlapDuration ==
    /\ pc = "call"
    /\ ret' = Returned("calculate_overlap_duration",
                       calculate_overlap_duration(call.start1, call.end1,
                                                  call.start2, call.end2))
    /\ pc' = "returned"
    /\ UNCHANGED <<call, pipeline>>

NextOverlap == CallCheckOverlap \/ CallCalculateOverlapDuration
SpecOverlap == InitOverlap /\ [][NextOverlap]_vars

\* Largest number of meetings of one entity on one day.
MaxMeetings == 3

\* Start and end minutes of the meetings of a day: 08:00, 09:00, 10:30, 11:00
\* and 12:00.
BlockMinutes == {8 * 60, 9 * 60, 10 * 60 + 30, 11 * 60, 12 * 60}

\* day_meetings after day_meetings.sort(key=start_minutes): the meetings of
\* one entity on one day in order of start, overlapping, equal-start and
\* ill-formed meetings included.
SortedDayMeetings ==
    {dm \in UNION {[1..n -> [start_minutes : BlockMinutes, end_minutes : BlockMinutes]] :
                      n \in 1..MaxMeetings} :
        \A i \in 1..(Len(dm) - 1) : dm[i].start_minutes <= dm[i + 1].start_minutes}

InitBlocks ==
    /\ NoRun
    /\ pc = "call"
    /\ call \in {[day_meetings |-> dm] : dm \in SortedDayMeetings}
    /\ ret = [returned |-> FALSE]

\* The block list of _check_min_continuous_for_entity.
CallContinuousBlocks ==
    /\ pc = "call"
    /\ LET dm == call.day_meetings
       IN ret' = Returned("_check_min_continuous_for_entity",
                          continuous_blocks(dm, 2, dm[1].start_minutes, dm[1].end_minutes))
    /\ pc' = "returned"
    /\ UNCHANGED <<call, pipeline>>

\* The blocks _check_continuous_for_entity_type checks.
CallCheckedBlocks ==
    /\ pc = "call"
    /\ LET dm == call.day_meetings
       IN ret' = Returned("_check_continuous_for_entity_type",
                          checked_blocks(dm, 1, dm[1].start_minutes, dm[1].end_minutes))
    /\ pc' = "returned"
    /\ UNCHANGED <<call, pipeline>>

NextBlocks == CallContinuousBlocks \/ CallCheckedBlocks
SpecBlocks == InitBlocks /\ [][NextBlocks]_vars

\* Largest raw count (in absolute value) and largest weight handed to
\* apply_penalty.
MaxCount == 4
MaxWeight == 9

InitPenalty ==
    /\ NoRun
    /\ pc = "call"
    /\ call \in [raw_count : (0 - MaxCount)..MaxCount, penalty_weight : 0..MaxWeight]
    /\ ret = [returned |-> FALSE]

CallApplyPenalty ==
    /\ pc = "call"
    /\ ret' = Returned("apply_penalty", apply_penalty(call.raw_count, call.penalty_weight))
    /\ pc' = "returned"
    /\ UNCHANGED <<call, pipeline>>

NextPenalty == CallApplyPenalty
SpecPenalty == InitPenalty /\ [][NextPenalty]_vars

\* check_external_meeting_conflicts called with reference data that carry one
\* external meeting, on one row: faculty, day and minutes of both, the end not
\* necessarily after the start.
TimedEntries ==
    [faculty_name : {F1, F2}, day : {MON, TUE},
     start_minutes : 0..MaxMinute, end_minutes : 0..MaxMinute]

InitExternal ==
    /\ NoRun
    /\ pc = "call"
    /\ call \in [meeting : TimedEntries, ext : TimedEntries]
    /\ ret = [returned |-> FALSE]

CallCheckExternalMeetingConflicts ==
    /\ pc = "call"
    /\ ret' = Returned("check_external_meeting_conflicts",
                       external_meeting_conflicts(<<call.meeting>>, <<call.ext>>))
    /\ pc' = "returned"
    /\ UNCHANGED <<call, pipeline>>

NextExternal == CallCheckExternalMeetingConflicts
SpecExternal == InitExternal /\ [][NextExternal]_vars

-----------------------------------------------------------------------------
(* Properties of the loader.                                               *)

Loaded == pc # "input"

\* The (subject_name, day, start_minute, end_minute) of a meeting.
MinuteKey(m) == <<m.subject_name, m.day, m.start_minutes, m.end_minutes>>

\* C3: after unification no two Meetings of the unified list have the same
\* (subject_name, day, start_minute, end_minute).
C3_OneMeetingPerMinuteKey ==
    Loaded =>
        \A i, j \in DOMAIN schedule_rows :
            MinuteKey(schedule_rows[i]) = MinuteKey(schedule_rows[j]) => i = j

\* The mapped rows a unified meeting was made from.
ContributingRows(m) ==
    IF "merged_from_rows" \in DOMAIN m
    THEN SelectSeq(unmerged_rows, LAMBDA r : r.meeting_id[1] \in Range(m.merged_from_rows))
    ELSE SelectSeq(unmerged_rows, LAMBDA r : r.meeting_id = m.meeting_id)

\* Every batch id _map_row resolved for a row: the whole list when the field
\* named several batches, else the single batch.
RowBatchIds(r) ==
    IF r.all_batch_ids # <<>> THEN Range(r.all_batch_ids) ELSE {r.batch_id} \ {None}

IsMerged(m) == "merged_from_rows" \in DOMAIN m

\* C4: a merged Meeting's batch-id set is the union of every batch id resolved
\* from every contributing row (second and later batches of a row included),
\* and its faculty-id and room-id sets are the unions of the rows' ids.
C4_MergedSetsAreUnions ==
    Loaded =>
        \A i \in DOMAIN schedule_rows :
            LET m == schedule_rows[i]
                rows == ContributingRows(m)
            IN IsMerged(m) =>
                /\ Range(m.all_batch_ids) = UNION {RowBatchIds(rows[k]) : k \in DOMAIN rows}
                /\ Range(m.all_faculty_ids) = {rows[k].faculty_id : k \in DOMAIN rows} \ {None}
                /\ Range(m.all_room_ids) = {rows[k].room_id : k \in DOMAIN rows} \ {None}

\* The meeting keys of the mapped rows and, per key, the distinct ids named.
KeysOfRows == {meeting_key(unmerged_rows[i]) : i \in DOMAIN unmerged_rows}
RowsWithKey(key) == {i \in DOMAIN unmerged_rows : meeting_key(unmerged_rows[i]) = key}
FacultyOfKey(key) == {unmerged_rows[i].faculty_id : i \in RowsWithKey(key)} \ {None}
RoomsOfKey(key) == {unmerged_rows[i].room_id : i \in RowsWithKey(key)} \ {None}
ConflictsOf(key, type) ==
    Cardinality({i \in DOMAIN data_conflicts : data_conflicts[i].type = type /\ data_conflicts[i].meeting = key})

\* C5: a 'Multiple Faculty Conflict' is recorded for a meeting key exactly
\* when its rows name more than one distinct faculty id, a 'Multiple Room
\* Conflict' exactly when they name more than one distinct room id, nothing
\* else is recorded, and the key's Meeting is produced in every case.
C5_ConflictsExactlyWhenSeveralIds ==
    Loaded =>
        /\ \A key \in KeysOfRows :
              /\ ConflictsOf(key, "Multiple Faculty Conflict")
                    = (IF Cardinality(FacultyOfKey(key)) > 1 THEN 1 ELSE 0)
              /\ ConflictsOf(key, "Multiple Room Conflict")
                    = (IF Cardinality(RoomsOfKey(key)) > 1 THEN 1 ELSE 0)
              /\ Cardinality({i \in DOMAIN schedule_rows : meeting_key(schedule_rows[i]) = key}) = 1
        /\ \A i \in DOMAIN data_conflicts :
              /\ data_conflicts[i].meeting \in KeysOfRows
              /\ data_conflicts[i].type \in {"Multiple Faculty Conflict", "Multiple Room Conflict"}

\* C5 witness: three rows were unified into two Meetings: two rows of one key
\* name two faculty and one room (a faculty conflict and no room conflict are
\* recorded), and the third row is alone under its key (nothing recorded).
C5_Witness ==
    /\ Loaded
    /\ Len(schedule_rows) = 2
    /\ \E key \in KeysOfRows :
          /\ Cardinality(FacultyOfKey(key)) > 1
          /\ Cardinality(RoomsOfKey(key)) = 1
          /\ ConflictsOf(key, "Multiple Faculty Conflict") = 1
          /\ ConflictsOf(key, "Multiple Room Conflict") = 0
    /\ \E key \in KeysOfRows :
          /\ Cardinality(RowsWithKey(key)) = 1
          /\ ConflictsOf(key, "Multiple Faculty Conflict") = 0
          /\ ConflictsOf(key, "Multiple Room Conflict") = 0

EveryKeyOnce == \A key \in KeysOfRows : Cardinality(RowsWithKey(key)) = 1

\* C6: when every meeting key occurs once among the mapped rows, the unified
\* list is the mapped row list itself (same Meetings, same order, unaltered)
\* and no conflict is recorded.
C6_UnifyIsIdentityOnSingleRows ==
    (Loaded /\ EveryKeyOnce) =>
        /\ Len(schedule_rows) = Len(unmerged_rows)
        /\ \A i \in DOMAIN schedule_rows :
              /\ DOMAIN schedule_rows[i] = DOMAIN unmerged_rows[i]
              /\ schedule_rows[i] = unmerged_rows[i]
        /\ data_conflicts = <<>>

\* C6 witness: three rows with three different keys were unified.
C6_Witness ==
    /\ Loaded
    /\ EveryKeyOnce
    /\ Len(unmerged_rows) = 3
    /\ schedule_rows = unmerged_rows

-----------------------------------------------------------------------------
(* Properties of the section builder and of the lecture-lab matcher.       *)

SectionsBuilt == pc \in {"pairs", "hard", "soft", "report", "done", "raised"}
PairsFound == pc \in {"hard", "soft", "report", "done", "raised"}

\* The places <<section, position>> at which Meeting i of the unified list
\* stands in the Sections.
MeetingPlaces(i) ==
    {pl \in UNION {{<<s, k>> : k \in DOMAIN sections[s].meetings} : s \in DOMAIN sections} :
        sections[pl[1]].meetings[pl[2]] = schedule_rows[i]}
SectionsHolding(i) == {pl[1] : pl \in MeetingPlaces(i)}

\* The (subject_id, faculty_id, batch-id set) of a Meeting.
MeetingTriple(m) == <<m.subject_id, m.faculty_id, RowBatchIds(m)>>

Unclassifiable(m) == m.faculty_id = None /\ RowBatchIds(m) = {}
Unresolved(m) == m.subject_id = None

RECURSIVE PopulationOf(_)
PopulationOf(ids) ==
    IF ids = {} THEN 0
    ELSE LET b == CHOOSE b \in ids : TRUE
         IN batches_by_id[b].population + PopulationOf(ids \ {b})

\* The distinct batch ids the Meetings of a Section name.
BatchesNamedIn(sec) == UNION {RowBatchIds(sec.meetings[k]) : k \in DOMAIN sec.meetings}

\* C8: a Section's total_students is the sum of the populations of its
\* distinct batch ids, each batch counted once however many of its Meetings,
\* or however many times one row, name it.
C8_TotalStudentsCountsEachBatchOnce ==
    SectionsBuilt =>
        \A s \in DOMAIN sections :
            /\ sections[s].batch_ids = BatchesNamedIn(sections[s])
            /\ sections[s].total_students = PopulationOf(BatchesNamedIn(sections[s]))

\* C8 witness: a Section of two Meetings and two batches, one Meeting naming
\* a batch twice, whose total is the two populations summed once each.
C8_Witness ==
    /\ SectionsBuilt
    /\ \E s \in DOMAIN sections :
          /\ Len(sections[s].meetings) = 2
          /\ sections[s].batch_ids = {1, 2}
          /\ \E k \in DOMAIN sections[s].meetings :
                Len(sections[s].meetings[k].all_batch_ids) = 3
          /\ sections[s].total_students
                = batches_by_id[1].population + batches_by_id[2].population

\* The pairs of a list that join lecture Section lec and lab Section lab.
PairsJoining(pairs, lec, lab) ==
    {p \in DOMAIN pairs : pairs[p].lecture_section = lec /\ pairs[p].lab_section = lab}

\* C9: find_lecture_lab_pairs builds one pair for every (lab Section, lecture
\* Section) in which the lab subject's linked_subject_id equals the lecture
\* Section's subject id and the batch-id sets are identical, and for no other
\* combination; the pair is in the valid list when the faculty ids are equal
\* and in the error list (is_valid false, with a reason) when they differ.
C9_OnePairPerLinkedCombination ==
    PairsFound =>
        \A lab, lec \in DOMAIN sections :
            LET linked == subjects_by_id[sections[lab].subject_id].linked_subject_id
                matching == /\ linked # None
                            /\ linked = sections[lec].subject_id
                            /\ sections[lab].batch_ids = sections[lec].batch_ids
                same_faculty == sections[lab].faculty_id = sections[lec].faculty_id
                valid == PairsJoining(valid_pairs, lec, lab)
                error == PairsJoining(error_pairs, lec, lab)
            IN /\ Cardinality(valid) = (IF matching /\ same_faculty THEN 1 ELSE 0)
               /\ Cardinality(error) = (IF matching /\ ~same_faculty THEN 1 ELSE 0)
               /\ \A p \in valid : valid_pairs[p].is_valid
               /\ \A p \in error : ~error_pairs[p].is_valid /\ error_pairs[p].error # NoneStr

-----------------------------------------------------------------------------
(* Properties of the hard checks.                                          *)

HardChecked == pc \in {"soft", "report", "done", "raised"}

\* The entities of a kind a Meeting belongs to.
EntitiesOf(m, entity_type) == Range(entity_ids_of(m, entity_type))

\* The violations a time-conflict pass reported for an entity, a day and the
\* unordered pair of Meetings i and j.
ConflictsReported(entity_type, e, day, i, j) ==
    {v \in DOMAIN hard_violations :
        /\ hard_violations[v].type = capitalize(entity_type) \o " Time Conflict"
        /\ hard_violations[v].entity_name = entity_name_of(entity_type, e)
        /\ hard_violations[v].day = day
        /\ {hard_violations[v].meeting1_id, hard_violations[v].meeting2_id}
              = {schedule_rows[i].meeting_id, schedule_rows[j].meeting_id}}

\* C1: in each time-conflict pass, for every entity, day and unordered pair of
\* distinct Meetings of the entity on the day, exactly one violation is
\* reported when s1 < e2 and s2 < e1, its magnitude the overlap in minutes,
\* and none when the pair does not overlap.
C1_OneViolationPerOverlappingPair ==
    HardChecked =>
        \A entity_type \in {"faculty", "batch", "room"} :
            \A i, j \in DOMAIN schedule_rows :
                (i < j /\ schedule_rows[i].day = schedule_rows[j].day) =>
                    \A e \in EntitiesOf(schedule_rows[i], entity_type)
                             \cap EntitiesOf(schedule_rows[j], entity_type) :
                        LET m1 == schedule_rows[i]
                            m2 == schedule_rows[j]
                            overlapping == /\ m1.start_minutes < m2.end_minutes
                                           /\ m2.start_minutes < m1.end_minutes
                            reported == ConflictsReported(entity_type, e, m1.day, i, j)
                        IN /\ Cardinality(reported) = (IF overlapping THEN 1 ELSE 0)
                           /\ \A v \in reported :
                                 hard_violations[v].magnitude
                                    = Min(m1.end_minutes, m2.end_minutes)
                                      - Max(m1.start_minutes, m2.start_minutes)

BackToBack(lec_m, lab_m) ==
    \/ lec_m.end_minutes = lab_m.start_minutes
    \/ lab_m.end_minutes = lec_m.start_minutes
SameRoom(lec_m, lab_m) == lec_m.room_id # None /\ lec_m.room_id = lab_m.room_id

\* The separation violations reported for a pair of Sections and one lecture
\* meeting and one lab meeting of them.
SeparationReported(lec, lab, lec_m, lab_m) ==
    {v \in DOMAIN hard_violations :
        /\ hard_violations[v].type = "Lecture-Lab Separation"
        /\ hard_violations[v].entity_name
              = sections[lec].section_id \o <<" ", "+", " ">> \o sections[lab].section_id
        /\ hard_violations[v].day = lec_m.day
        /\ hard_violations[v].lecture_time = time_range(lec_m.start_time, lec_m.end_time)
        /\ hard_violations[v].lab_time = time_range(lab_m.start_time, lab_m.end_time)}

\* The (pair, lecture meeting, lab meeting) combinations of the valid pairs
\* that fall on one day.
SameDayCombinations ==
    {c \in UNION {UNION {{<<p, a, b>> :
                             b \in DOMAIN sections[valid_pairs[p].lab_section].meetings} :
                         a \in DOMAIN sections[valid_pairs[p].lecture_section].meetings} :
                  p \in DOMAIN valid_pairs} :
        sections[valid_pairs[c[1]].lecture_section].meetings[c[2]].day
            = sections[valid_pairs[c[1]].lab_section].meetings[c[3]].day}

\* C10: for every valid pair and every lecture meeting and lab meeting of it
\* on one day, exactly one violation of magnitude 1 is reported when the two
\* are not back-to-back or are back-to-back in different rooms, none when they
\* are back-to-back in the same room; nothing else (error pairs, days on
\* which only one of the Sections meets) is reported.
C10_SeparationPerSameDayCombination ==
    HardChecked =>
        /\ \A c \in SameDayCombinations :
              LET lec == valid_pairs[c[1]].lecture_section
                  lab == valid_pairs[c[1]].lab_section
                  lec_m == sections[lec].meetings[c[2]]
                  lab_m == sections[lab].meetings[c[3]]
                  reported == SeparationReported(lec, lab, lec_m, lab_m)
              IN /\ Cardinality(reported)
                       = (IF BackToBack(lec_m, lab_m) /\ SameRoom(lec_m, lab_m) THEN 0 ELSE 1)
                 /\ \A v \in reported : hard_violations[v].magnitude = 1
        /\ Cardinality({v \in DOMAIN hard_violations :
                           hard_violations[v].type = "Lecture-Lab Separation"})
              = Cardinality({c \in SameDayCombinations :
                    LET lec_m == sections[valid_pairs[c[1]].lecture_section].meetings[c[2]]
                        lab_m == sections[valid_pairs[c[1]].lab_section].meetings[c[3]]
                    IN ~(BackToBack(lec_m, lab_m) /\ SameRoom(lec_m, lab_m))})

\* C10 witness: a valid pair whose lab meets twice on the lecture's day: once
\* right after the lecture in its room (nothing reported) and once
\* overlapping it (one violation reported).
C10_Witness ==
    /\ HardChecked
    /\ \E c1, c2 \in SameDayCombinations :
          /\ c1[1] = c2[1]
          /\ LET lec == valid_pairs[c1[1]].lecture_section
                 lab == valid_pairs[c1[1]].lab_section
                 lec_m == sections[lec].meetings[c1[2]]
                 lab_m1 == sections[lab].meetings[c1[3]]
                 lab_m2 == sections[lab].meetings[c2[3]]
             IN /\ BackToBack(lec_m, lab_m1) /\ SameRoom(lec_m, lab_m1)
                /\ SeparationReported(lec, lab, lec_m, lab_m1) = {}
                /\ ~BackToBack(lec_m, lab_m2)
                /\ Cardinality(SeparationReported(lec, lab, lec_m, lab_m2)) = 1

-----------------------------------------------------------------------------
(* Properties of the whole run.                                            *)

\* C2: the result of a completed run reports feasible exactly when the list
\* of hard violations is empty, whatever the soft violations and the data
\* conflicts are; the summary report states the same.
C2_FeasibleIffNoHardViolation ==
    (pc = "done") =>
        /\ result.feasible <=> (hard_violations = <<>>)
        /\ (summary.status = "FEASIBLE") <=> (hard_violations = <<>>)
        /\ result.hard_violations = hard_violations

\* C2 witness: a completed run with soft violations and a data conflict but
\* no hard violation, reported feasible.
C2_Witness ==
    /\ pc = "done"
    /\ hard_violations = <<>>
    /\ soft_violations # <<>>
    /\ data_conflicts # <<>>
    /\ result.feasible

-----------------------------------------------------------------------------
(* Properties of the interval functions, the block segmentation and the    *)
(* penalty formula.                                                        *)

OverlapReturned == pc = "returned" /\ ret.function = "check_overlap"
DurationReturned == pc = "returned" /\ ret.function = "calculate_overlap_duration"

\* C11: check_overlap(s1, e1, s2, e2) is true exactly when s1 < e2 and
\* s2 < e1; it gives the same answer with the two intervals exchanged, and it
\* is false for touching intervals (s1 = e2 or s2 = e1).
C11_OverlapIsStrictAndSymmetric ==
    OverlapReturned =>
        /\ ret.value <=> (call.start1 < call.end2 /\ call.start2 < call.end1)
        /\ ret.value <=> check_overlap(call.start2, call.end2, call.start1, call.end1)
        /\ (call.start1 = call.end2 \/ call.start2 = call.end1) => ~ret.value

\* C11 witness: check_overlap was called on two intervals of positive length
\* that touch, and returned false.
C11_Witness ==
    /\ OverlapReturned
    /\ call.start1 < call.end1
    /\ call.end1 = call.start2
    /\ call.start2 < call.end2
    /\ ret.value = FALSE

\* C12 as stated: for all pairs of meetings with s1 < e2 and s2 < e1,
\* calculate_overlap_duration returns min(e1, e2) - max(s1, s2); for touching
\* or disjoint intervals it returns 0.
C12_DurationIsMinEndMinusMaxStart ==
    DurationReturned =>
        IF call.start1 < call.end2 /\ call.start2 < call.end1
        THEN ret.value = Min(call.end1, call.end2) - Max(call.start1, call.start2)
        ELSE ret.value = 0

\* C12 amended: for all pairs of meetings that each end after they start,
\* with s1 < e2 and s2 < e1, calculate_overlap_duration returns
\* min(e1, e2) - max(s1, s2); for touching or disjoint intervals it returns 0,
\* and it never returns a negative number.
C12_DurationOfWellFormedMeetings ==
    DurationReturned =>
        /\ (/\ call.start1 < call.end1 /\ call.start2 < call.end2
            /\ call.start1 < call.end2 /\ call.start2 < call.end1)
              => ret.value = Min(call.end1, call.end2) - Max(call.start1, call.start2)
        /\ ~(call.start1 < call.end2 /\ call.start2 < call.end1) => ret.value = 0
        /\ ret.value >= 0

\* C12 witness: calculate_overlap_duration was called on two overlapping
\* meetings of positive length, neither inside the other, and returned the
\* length of their common part.
C12_Witness ==
    /\ DurationReturned
    /\ call.start1 < call.start2
    /\ call.start2 < call.end1
    /\ call.end1 < call.end2
    /\ ret.value = call.end1 - call.start2

\* The positions of a start-sorted list at which a maximal run begins: the
\* first, and every meeting that does not start when the one before it ends.
RunStarts(dm) ==
    {i \in DOMAIN dm : i = 1 \/ dm[i].start_minutes # dm[i - 1].end_minutes}

\* The spans of the maximal runs of a start-sorted list, in order.
MaximalRuns(dm) ==
    [k \in 1..Cardinality(RunStarts(dm)) |->
        LET first == CHOOSE a \in RunStarts(dm) :
                        Cardinality({b \in RunStarts(dm) : b < a}) = k - 1
            later == {b \in RunStarts(dm) : b > first}
            last == IF later = {} THEN Len(dm)
                    ELSE (CHOOSE b \in later : \A c \in later : b <= c) - 1
        IN [block_start |-> dm[first].start_minutes, block_end |-> dm[last].end_minutes]]

BlocksReturned == pc = "returned" /\ "day_meetings" \in DOMAIN call

ExampleDay ==
    << [start_minutes |-> 8 * 60, end_minutes |-> 9 * 60],
       [start_minutes |-> 9 * 60, end_minutes |-> 10 * 60 + 30],
       [start_minutes |-> 11 * 60, end_minutes |-> 12 * 60] >>

\* C13: the block segmentation of the soft and of the hard checker turns one
\* entity's start-sorted meetings of a day into the spans of its maximal runs
\* in which each meeting starts exactly when the previous one ends, a lone
\* meeting being its own block; 08:00-09:00, 09:00-10:30, 11:00-12:00 gives
\* exactly 08:00-10:30 (150 minutes) and 11:00-12:00 (60 minutes).
C13_BlocksAreMaximalRuns ==
    BlocksReturned =>
        /\ ret.value = MaximalRuns(call.day_meetings)
        /\ Len(call.day_meetings) = 1 =>
              ret.value = <<[block_start |-> call.day_meetings[1].start_minutes,
                             block_end |-> call.day_meetings[1].end_minutes]>>
        /\ call.day_meetings = ExampleDay =>
              /\ ret.value = <<[block_start |-> 8 * 60, block_end |-> 10 * 60 + 30],
                               [block_start |-> 11 * 60, block_end |-> 12 * 60]>>
              /\ ret.value[1].block_end - ret.value[1].block_start = 150
              /\ ret.value[2].block_end - ret.value[2].block_start = 60

\* C13 witness: the soft checker's segmentation was applied to the three
\* meetings of the example and returned two blocks.
C13_Witness ==
    /\ BlocksReturned
    /\ ret.function = "_check_min_continuous_for_entity"
    /\ call.day_meetings = ExampleDay
    /\ Len(ret.value) = 2

PenaltyReturned == pc = "returned" /\ ret.function = "apply_penalty"

\* C19: apply_penalty(0, w) is 0 for any weight w, apply_penalty(m, w) is 0
\* for any m <= 0, and with exponent 1 apply_penalty(m, w) is m * w for every
\* m > 0.
C19_PenaltyIsWeightedCount ==
    PenaltyReturned =>
        /\ call.raw_count = 0 => ret.value = 0
        /\ call.raw_count <= 0 => ret.value = 0
        /\ (Config.PENALTY_EXPONENT = 1 /\ call.raw_count > 0)
              => ret.value = call.raw_count * call.penalty_weight

\* C19 witness: apply_penalty was called with exponent 1, a count and a
\* weight above 1, and returned their product.
C19_Witness ==
    /\ PenaltyReturned
    /\ Config.PENALTY_EXPONENT = 1
    /\ call.raw_count > 1
    /\ call.penalty_weight > 1
    /\ ret.value = call.raw_count * call.penalty_weight

-----------------------------------------------------------------------------
(* Properties of the checks of blocks, gaps, banned times and room         *)
(* capacity.                                                               *)

\* The entities of a kind and the days that occur in the unified list.
EntitiesIn(entity_type) ==
    UNION {EntitiesOf(schedule_rows[i], entity_type) : i \in DOMAIN schedule_rows}
DaysIn == {schedule_rows[i].day : i \in DOMAIN schedule_rows}

\* The Meetings of an entity on a day, each once, in order of start (Meetings
\* of equal start in the order of the unified list).
MeetingsOfOn(entity_type, e, day) ==
    LET ms == SelectSeq(schedule_rows,
                        LAMBDA m : e \in EntitiesOf(m, entity_type) /\ m.day = day)
    IN SortByKey(ms, [i \in DOMAIN ms |-> ms[i].start_minutes])

\* The Max Continuous violations reported for an entity, a day and a block.
BlocksReported(entity_type, e, day, block) ==
    {v \in DOMAIN hard_violations :
        /\ hard_violations[v].type = "Max Continuous Class Exceeded"
        /\ hard_violations[v].entity_type = capitalize(entity_type)
        /\ hard_violations[v].entity_name = entity_name_of(entity_type, e)
        /\ hard_violations[v].day = day
        /\ hard_violations[v].block_start = minutes_to_time_str(block.block_start)
        /\ hard_violations[v].block_end = minutes_to_time_str(block.block_end)}

\* C14: for every faculty or batch and every day, check_max_continuous_class
\* reports exactly one violation per continuous block of the entity's Meetings
\* whose length exceeds the configured maximum, with magnitude = length -
\* maximum, and none for a block of length at most the maximum.
C14_OneViolationPerLongBlock ==
    HardChecked =>
        \A entity_type \in {"faculty", "batch"} :
            \A e \in EntitiesIn(entity_type) : \A day \in DaysIn :
                LET blocks == MaximalRuns(MeetingsOfOn(entity_type, e, day))
                    maximum == Config.MAX_CONTINUOUS_CLASS_MINUTES
                IN \A b \in DOMAIN blocks :
                       LET length == blocks[b].block_end - blocks[b].block_start
                           alike == {k \in DOMAIN blocks : blocks[k] = blocks[b]}
                           reported == BlocksReported(entity_type, e, day, blocks[b])
                       IN /\ Cardinality(reported)
                                = (IF length > maximum THEN Cardinality(alike) ELSE 0)
                          /\ \A v \in reported :
                                hard_violations[v].magnitude = length - maximum

\* The Min Gap violations reported for an entity, a day and the gap between
\* two Meetings.
GapsReported(entity_type, e, day, current, next) ==
    {v \in DOMAIN hard_violations :
        /\ hard_violations[v].type = "Min Gap Violation"
        /\ hard_violations[v].entity_type = capitalize(entity_type)
        /\ hard_violations[v].entity_name = entity_name_of(entity_type, e)
        /\ hard_violations[v].day = day
        /\ hard_violations[v].gap_start = minutes_to_time_str(current.end_minutes)
        /\ hard_violations[v].gap_end = minutes_to_time_str(next.start_minutes)}

\* C15: for every faculty or batch and every day, check_min_gap reports one
\* violation for each pair of adjacent (start-sorted) Meetings of the entity
\* whose gap next.start - current.end is positive and strictly below the
\* configured minimum, with magnitude = minimum - gap; a gap that is zero,
\* negative or at least the minimum gives none, and nothing else is reported.
C15_OneViolationPerShortGap ==
    HardChecked =>
        /\ \A entity_type \in {"faculty", "batch"} :
              \A e \in EntitiesIn(entity_type) : \A day \in DaysIn :
                  LET dm == MeetingsOfOn(entity_type, e, day)
                      minimum == Config.MIN_GAP_MINUTES
                  IN \A i \in 1..(Len(dm) - 1) :
                         LET gap == dm[i + 1].start_minutes - dm[i].end_minutes
                             alike == {k \in 1..(Len(dm) - 1) :
                                          /\ dm[k].end_minutes = dm[i].end_minutes
                                          /\ dm[k + 1].start_minutes = dm[i + 1].start_minutes}
                             reported == GapsReported(entity_type, e, day, dm[i], dm[i + 1])
                         IN /\ Cardinality(reported)
                                  = (IF gap > 0 /\ gap < minimum THEN Cardinality(alike) ELSE 0)
                            /\ \A v \in reported :
                                  hard_violations[v].magnitude = minimum - gap
        /\ \A v \in DOMAIN hard_violations :
              hard_violations[v].type = "Min Gap Violation" =>
                  \E entity_type \in {"faculty", "batch"} :
                      \E e \in EntitiesIn(entity_type) : \E day \in DaysIn :
                          LET dm == MeetingsOfOn(entity_type, e, day)
                          IN \E i \in 1..(Len(dm) - 1) :
                                 v \in GapsReported(entity_type, e, day, dm[i], dm[i + 1])

\* The Banned Time violations reported for a banned slot and a Meeting.
BannedReported(banned, meeting) ==
    {v \in DOMAIN hard_violations :
        /\ hard_violations[v].type = "Banned Time Violation"
        /\ hard_violations[v].entity_name = meeting.subject_name
        /\ hard_violations[v].day = banned.day
        /\ hard_violations[v].meeting_time = time_range(meeting.start_time, meeting.end_time)
        /\ hard_violations[v].banned_time = time_range(banned.start_time, banned.end_time)}

\* A banned slot applies to a Meeting: it names no faculty, or the faculty it
\* names is in the Meeting's faculty set.
AppliesTo(banned, meeting) ==
    \/ banned.faculty_name = <<>>
    \/ /\ banned.faculty_name \in DOMAIN faculty_by_name
       /\ faculty_by_name[banned.faculty_name].faculty_id \in EntitiesOf(meeting, "faculty")

BannedCombination(banned, meeting) ==
    /\ meeting.day = banned.day
    /\ meeting.start_minutes < banned.end_minutes
    /\ banned.start_minutes < meeting.end_minutes
    /\ AppliesTo(banned, meeting)

\* C17: check_banned_times reports exactly one violation, with magnitude =
\* overlap minutes, for every (banned slot, Meeting) combination in which the
\* Meeting is on the slot's day, its time overlaps the banned window and, when
\* the slot names a faculty, that faculty is in the Meeting's faculty set; a
\* slot with no faculty applies to every Meeting, and no other combination
\* gives a violation.
C17_OneViolationPerBannedCombination ==
    HardChecked =>
        /\ \A b \in DOMAIN banned_times : \A i \in DOMAIN schedule_rows :
              LET banned == banned_times[b]
                  meeting == schedule_rows[i]
                  reported == BannedReported(banned, meeting)
              IN /\ Cardinality(reported)
                       = (IF BannedCombination(banned, meeting) THEN 1 ELSE 0)
                 /\ \A v \in reported :
                       hard_violations[v].magnitude
                          = Max(0, Min(meeting.end_minutes, banned.end_minutes)
                                   - Max(meeting.start_minutes, banned.start_minutes))
        /\ Cardinality({v \in DOMAIN hard_violations :
                           hard_violations[v].type = "Banned Time Violation"})
              = Cardinality({c \in (DOMAIN banned_times) \X (DOMAIN schedule_rows) :
                                BannedCombination(banned_times[c[1]], schedule_rows[c[2]])})

\* C17 witness: a Meeting of two faculty, one of them named by a banned slot
\* that overlaps it for 30 minutes, with one violation of magnitude 30, beside
\* a Meeting of that faculty that starts when the slot ends, with none.
C17_Witness ==
    /\ HardChecked
    /\ \E b \in DOMAIN banned_times : \E i, j \in DOMAIN schedule_rows :
          /\ banned_times[b].faculty_name # <<>>
          /\ Cardinality(EntitiesOf(schedule_rows[i], "faculty")) = 2
          /\ BannedCombination(banned_times[b], schedule_rows[i])
          /\ \E v \in BannedReported(banned_times[b], schedule_rows[i]) :
                hard_violations[v].magnitude = 30
          /\ AppliesTo(banned_times[b], schedule_rows[j])
          /\ schedule_rows[j].day = banned_times[b].day
          /\ schedule_rows[j].start_minutes = banned_times[b].end_minutes
          /\ BannedReported(banned_times[b], schedule_rows[j]) = {}

\* The Room Capacity violations reported for a Section.
CapacityReported(sec) ==
    {v \in DOMAIN hard_violations :
        /\ hard_violations[v].type = "Room Capacity Exceeded"
        /\ hard_violations[v].entity_name = sec.section_id}

\* C16: check_room_capacity reports exactly one 'Room Capacity Exceeded'
\* violation for each Section that has a known room with a known capacity and
\* total_students above that room's capacity, with magnitude = total_students
\* - capacity, and none for any other Section.
C16_OneViolationPerOverfullRoom ==
    HardChecked =>
        \A s \in DOMAIN sections :
            LET sec == sections[s]
                known == sec.room_id # None /\ sec.room_id \in DOMAIN rooms_by_id
                capacity == rooms_by_id[sec.room_id].capacity
                reported == CapacityReported(sec)
            IN /\ Cardinality(reported)
                     = (IF known /\ sec.total_students > capacity THEN 1 ELSE 0)
               /\ \A v \in reported :
                     hard_violations[v].magnitude = sec.total_students - capacity

-----------------------------------------------------------------------------
(* Properties of the soft checks.                                          *)

SoftChecked == pc \in {"report", "done", "raised"}

\* The Sections of a subject taught by a faculty.
SectionsTaught(faculty_id, subject_id) ==
    {s \in DOMAIN sections :
        /\ sections[s].faculty_id = faculty_id
        /\ sections[s].subject_id = subject_id}

\* The Non-Preferred Subject violations reported for a faculty and a subject.
NonPreferredReported(faculty_id, subject_id) ==
    {v \in DOMAIN soft_violations :
        /\ soft_violations[v].type = "Non-Preferred Subject"
        /\ soft_violations[v].entity_name = faculty_by_id[faculty_id].faculty_name
        /\ soft_violations[v].subject = subjects_by_id[subject_id].subject_name}

\* C18: a faculty with a non-empty preferred-subject list who teaches a
\* subject outside it gets one Non-Preferred Subject violation for that
\* subject, whose magnitude is the number of distinct Sections of the subject
\* taught by the faculty, however many Meetings each Section has.
C18_MagnitudeCountsSections ==
    SoftChecked =>
        \A f \in DOMAIN faculty_by_id : \A subject_id \in DOMAIN subjects_by_id :
            LET taught == SectionsTaught(f, subject_id)
                outside == /\ faculty_by_id[f].preferred_subjects # <<>>
                           /\ subject_id \notin Range(faculty_by_id[f].preferred_subjects)
                reported == NonPreferredReported(f, subject_id)
            IN /\ Cardinality(reported) = (IF outside /\ taught # {} THEN 1 ELSE 0)
               /\ \A v \in reported :
                     soft_violations[v].magnitude = Cardinality(taught)

\* The minutes a faculty teaches: the summed durations of the Meetings whose
\* faculty set holds the faculty.
MinutesTaught(faculty_id) ==
    SumSeq([i \in DOMAIN schedule_rows |->
               IF faculty_id \in EntitiesOf(schedule_rows[i], "faculty")
               THEN schedule_rows[i].end_minutes - schedule_rows[i].start_minutes
               ELSE 0])

\* The load violations of a type reported for a faculty.
LoadReported(type, faculty_id) ==
    {v \in DOMAIN soft_violations :
        /\ soft_violations[v].type = type
        /\ soft_violations[v].entity_name = faculty_by_id[faculty_id].faculty_name}

\* C20: for each faculty the soft checks compare the summed durations of the
\* faculty's Meetings with the faculty's weekly bounds (min_load and max_load
\* in minutes): a sum above the maximum gives one Faculty Overload violation
\* with magnitude = sum - maximum, a sum below the minimum (a faculty with no
\* Meetings included) gives one Faculty Underfill violation with magnitude =
\* minimum - sum, each with penalty apply_penalty(magnitude, weight).
C20_OneLoadViolationPerFacultyOutOfBounds ==
    SoftChecked =>
        \A f \in DOMAIN faculty_by_id :
            LET total == MinutesTaught(f)
                maximum == faculty_by_id[f].max_load * Config.LOAD_TO_MINUTES
                minimum == faculty_by_id[f].min_load * Config.LOAD_TO_MINUTES
                over == LoadReported("Faculty Overload", f)
                under == LoadReported("Faculty Underfill", f)
            IN /\ Cardinality(over) = (IF total > maximum THEN 1 ELSE 0)
               /\ \A v \in over :
                     /\ soft_violations[v].magnitude = total - maximum
                     /\ soft_violations[v].penalty
                           = apply_penalty(total - maximum, Config.FACULTY_OVERLOAD_PER_LOAD)
               /\ Cardinality(under) = (IF total < minimum THEN 1 ELSE 0)
               /\ \A v \in under :
                     /\ soft_violations[v].magnitude = minimum - total
                     /\ soft_violations[v].penalty
                           = apply_penalty(minimum - total, Config.FACULTY_UNDERFILL_PER_LOAD)

\* The violations a call of check_external_meeting_conflicts returned.
ExternalReturned ==
    IF pc = "returned" /\ ret.function = "check_external_meeting_conflicts"
    THEN ret.value ELSE <<>>

\* C21: every violation record of a hard or soft check has a magnitude that
\* is not negative, also for meetings and external commitments whose end
\* minute is not after their start minute.
C21_MagnitudesAreNonNegative ==
    /\ \A v \in DOMAIN hard_violations : hard_violations[v].magnitude >= 0
    /\ \A v \in DOMAIN soft_violations : soft_violations[v].magnitude >= 0
    /\ \A v \in DOMAIN ExternalReturned : ExternalReturned[v].magnitude >= 0

-----------------------------------------------------------------------------
(* Properties of the run as a whole.                                       *)

\* The phase main() enters after each phase that follows the load.
PhaseAfter ==
    [p \in {"sections", "pairs", "hard", "soft", "report"} |->
        CASE p = "sections" -> "pairs"
          [] p = "pairs" -> "hard"
          [] p = "hard" -> "soft"
          [] p = "soft" -> "report"
          [] p = "report" -> "done"]

\* Nothing of the phases after the load has happened.
NothingChecked ==
    /\ sections = <<>>
    /\ valid_pairs = <<>>
    /\ error_pairs = <<>>
    /\ hard_violations = <<>>
    /\ soft_violations = <<>>
    /\ summary = [written |-> FALSE]

\* The results of the eight hard checks, in the order of the claim.
EightHardChecks(rev) ==
    check_faculty_time_conflicts(schedule_rows)
    \o check_batch_time_conflicts(schedule_rows)
    \o check_room_time_conflicts(schedule_rows)
    \o check_room_capacity(sections)
    \o check_max_continuous_class(schedule_rows)
    \o check_min_gap(schedule_rows)
    \o check_banned_times(schedule_rows)
    \o check_lecture_lab_separation(valid_pairs, sections, rev)

\* The results of the ten soft checks.
TenSoftChecks ==
    check_faculty_overload(schedule_rows)
    \o check_faculty_underfill(schedule_rows)
    \o check_section_overfill(sections)
    \o check_section_underfill(sections)
    \o check_min_continuous_class(schedule_rows)
    \o check_excess_gap(schedule_rows)
    \o check_non_preferred_subject(schedule_rows)
    \o check_friday_late_classes(schedule_rows)
    \o check_excess_subjects(schedule_rows)
    \o check_external_meeting_conflicts(schedule_rows)

\* One step of main(): the load ends the run exactly when it yields no
\* Meeting, and then nothing has been built or checked and nothing but None
\* is returned; an ended run takes no step; every other phase is followed by
\* the next one, the hard phase leaving the results of the eight hard checks
\* and the soft phase those of the ten soft checks, and only the report
\* returns the result.
RunStep ==
    /\ pc \notin {"aborted", "done", "raised"}
    /\ (pc = "input" /\ pc' # "input") =>
          IF schedule_rows' = <<>>
          THEN /\ pc' = "aborted"
               /\ NothingChecked'
               /\ result' = [returned |-> TRUE, value |-> "None"]
          ELSE /\ pc' = "sections"
               /\ ~result'.returned
    /\ pc \in DOMAIN PhaseAfter =>
          /\ pc' = PhaseAfter[pc]
          /\ schedule_rows' # <<>>
          /\ pc = "sections" => sections' = build_sections(schedule_rows)
          /\ pc = "pairs" => /\ valid_pairs' = find_lecture_lab_pairs(sections).valid_pairs
                             /\ error_pairs' = find_lecture_lab_pairs(sections).error_pairs
          /\ pc = "hard" => \E rev \in BOOLEAN : hard_violations' = EightHardChecks(rev)
          /\ pc = "soft" => soft_violations' = TenSoftChecks
          /\ IF pc = "report"
             THEN /\ result'.returned
                  /\ result'.value = "dict"
                  /\ result'.hard_violations = hard_violations
                  /\ result'.soft_violations = soft_violations
             ELSE ~result'.returned

\* C22: a run either fails fast or completes every check.  When the loader
\* yields no Meeting, main stops before section building, runs no check and
\* returns no result; otherwise it runs, in this order, section building,
\* lecture-lab matching, the eight hard checks and the ten soft checks and
\* then returns a result, whatever unmapped subjects, unknown names, data
\* conflicts or violations the run meets.
C22_FailFastOrComplete ==
    /\ [][RunStep]_vars
    /\ (pc = "sections") ~> (pc = "done" /\ result.returned /\ result.value = "dict")

\* What the checks are given: the unified list, the Sections and the pairs.
Checked == <<schedule_rows, sections, valid_pairs, error_pairs>>

Listed(entries, e, m) ==
    \E k \in DOMAIN entries : entries[k].entity_id = e /\ entries[k].row = m

\* The minutes the load checks count for a faculty.
MinutesCounted(faculty_id) ==
    LET totals == faculty_minutes(schedule_rows)
    IN SumSeq([k \in DOMAIN totals |->
                  IF totals[k].faculty_id = faculty_id THEN totals[k].total_minutes ELSE 0])

\* C24: every check that groups Meetings by faculty, batch or room counts a
\* Meeting with several faculty, batch or room ids toward every id of its
\* set: the hard checks of time conflicts, continuous blocks and gaps list it
\* under each id, so do the soft checks of short blocks and excess gaps, and
\* the faculty load sums it for each of its faculty.
C24_ChecksCountEveryId ==
    SoftChecked =>
        /\ \A i \in DOMAIN schedule_rows :
              LET m == schedule_rows[i]
              IN /\ \A entity_type \in {"faculty", "batch", "room"} :
                        \A e \in EntitiesOf(m, entity_type) :
                            Listed(entity_entries(schedule_rows, entity_type), e, m)
                 /\ \A entity_type \in {"faculty", "batch"} :
                        \A e \in EntitiesOf(m, entity_type) :
                            Listed(single_entity_entries(schedule_rows, entity_type), e, m)
        /\ \A f \in EntitiesIn("faculty") : MinutesCounted(f) = MinutesTaught(f)

-----------------------------------------------------------------------------
(* Properties of the canonical faculty and room of a merged Meeting and of  *)
(* the rooms of a Section.                                                 *)

\* The <type>_id of the first of the rows, in input order, that has one.
FirstId(rows, id_field) ==
    LET having == SelectSeq(rows, LAMBDA r : r[id_field] # None)
    IN IF having = <<>> THEN None ELSE having[1][id_field]

\* The ids of a kind the rows carry.
IdsNamed(rows, id_field) == {rows[i][id_field] : i \in DOMAIN rows} \ {None}

\* C25: when the rows of one meeting key name more than one faculty (or
\* room), the merged Meeting's faculty_id (or room_id) is that of the first
\* row, in input order, that has a faculty (or room).
C25_CanonicalIdIsFirstRows ==
    Loaded =>
        \A i \in DOMAIN schedule_rows :
            LET m == schedule_rows[i]
                rows == ContributingRows(m)
            IN /\ Cardinality(IdsNamed(rows, "faculty_id")) > 1 =>
                     m.faculty_id = FirstId(rows, "faculty_id")
               /\ Cardinality(IdsNamed(rows, "room_id")) > 1 =>
                     m.room_id = FirstId(rows, "room_id")

-----------------------------------------------------------------------------
(* check_non_preferred_subject under a configured penalty exponent.        *)

\* Largest PENALTY_EXPONENT of the configurations tried.
MaxExponent == 2

\* Config.apply_penalty of a configuration whose PENALTY_EXPONENT is exponent.
apply_penalty_with(exponent, raw_count, penalty_weight) ==
    IF raw_count <= 0 THEN 0
    ELSE Power(raw_count, exponent) * penalty_weight

\* The Meetings the loader makes of at most two rows of schedule.csv.
LoadedOfTwo ==
    {unify_meetings(map_rows(c), rev) :
        c \in {<<>>} \cup {<<a>> : a \in ScheduleRows}
                     \cup {<<a, b>> : a \in ScheduleRows, b \in ScheduleRows},
        rev \in BOOLEAN}

InitExponent ==
    /\ NoRun
    /\ pc = "call"
    /\ call \in [PENALTY_EXPONENT : 1..MaxExponent, schedule_rows : LoadedOfTwo]
    /\ ret = [returned |-> FALSE]

\* check_non_preferred_subject reads of the configuration only
\* NON_PREFERRED_SUBJECT_PENALTY, whatever its PENALTY_EXPONENT.
CallCheckNonPreferredSubject ==
    /\ pc = "call"
    /\ ret' = Returned("check_non_preferred_subject",
                       check_non_preferred_subject(call.schedule_rows))
    /\ pc' = "returned"
    /\ UNCHANGED <<call, pipeline>>

NextExponent == CallCheckNonPreferredSubject
SpecExponent == InitExponent /\ [][NextExponent]_vars

\* C26: the penalty of every Non-Preferred Subject violation is
\* apply_penalty(magnitude, NON_PREFERRED_SUBJECT_PENALTY) under the configured
\* exponent, that is magnitude^exponent * weight for a positive magnitude.
C26_PenaltyIsApplyPenalty ==
    (pc = "returned" /\ ret.function = "check_non_preferred_subject") =>
        \A k \in DOMAIN ret.value :
            ret.value[k].penalty =
                apply_penalty_with(call.PENALTY_EXPONENT, ret.value[k].magnitude,
                                   Config.NON_PREFERRED_SUBJECT_PENALTY)

-----------------------------------------------------------------------------
(* The rooms of a Section.                                                 *)

\* The room ids a Meeting carries: all_room_ids of a merged Meeting, else
\* its room_id.
RoomsCarried(m) ==
    IF "merged_from_rows" \in DOMAIN m
    THEN Range(m.all_room_ids)
    ELSE {m.room_id} \ {None}

\* C27: a Section's room set is the union of the room ids carried by its
\* Meetings, every room of a merged Meeting included, and its primary room
\* is the room of the first of its Meetings, in input order, that has one.
C27_SectionRoomsAreUnion ==
    SectionsBuilt =>
        \A s \in DOMAIN sections :
            LET meetings == sections[s].meetings
            IN /\ sections[s].room_ids =
                      UNION {RoomsCarried(meetings[i]) : i \in DOMAIN meetings}
               /\ sections[s].room_id = FirstId(meetings, "room_id")

-----------------------------------------------------------------------------
(* The two Meetings of a time-conflict violation.                          *)

\* C28: in every Faculty, Batch or Room Time Conflict violation meeting1 and
\* meeting2 are two different Meetings, because each Meeting is listed at
\* most once under each entity id.
C28_NoMeetingConflictsWithItself ==
    HardChecked =>
        /\ \A v \in DOMAIN hard_violations :
              hard_violations[v].type \in {"Faculty Time Conflict", "Batch Time Conflict",
                                           "Room Time Conflict"}
                  => hard_violations[v].meeting1_id # hard_violations[v].meeting2_id
        /\ \A entity_type \in {"faculty", "batch", "room"} :
              LET entries == entity_entries(schedule_rows, entity_type)
              IN \A a, b \in DOMAIN entries : entries[a] = entries[b] => a = b

-----------------------------------------------------------------------------
(* The block tracking of the hard and of the soft checker compared.        *)

\* C29: on the same start-sorted list of meetings of one entity on one day,
\* the blocks the hard checker's loop tracks and the block list of the soft
\* checker are the same sequence of (block_start, block_end) spans.
C29_CheckersDelimitSameBlocks ==
    BlocksReturned =>
        LET dm == call.day_meetings
            hard == checked_blocks(dm, 1, dm[1].start_minutes, dm[1].end_minutes)
            soft == continuous_blocks(dm, 2, dm[1].start_minutes, dm[1].end_minutes)
        IN /\ ret.function = "_check_continuous_for_entity_type" => ret.value = soft
           /\ ret.function = "_check_min_continuous_for_entity" => ret.value = hard

\* C29 witness: the hard checker tracked the blocks of three meetings of
\* which two start together and two overlap, and the soft checker's block
\* list of the same meetings is the same two or more spans.
C29_Witness ==
    /\ BlocksReturned
    /\ ret.function = "_check_continuous_for_entity_type"
    /\ LET dm == call.day_meetings
       IN /\ Len(dm) = 3
          /\ dm[1].start_minutes = dm[2].start_minutes
          /\ dm[3].start_minutes < dm[2].end_minutes
          /\ \A i \in DOMAIN dm : dm[i].start_minutes < dm[i].end_minutes
          /\ Len(ret.value) >= 2
          /\ ret.value = continuous_blocks(dm, 2, dm[1].start_minutes, dm[1].end_minutes)

-----------------------------------------------------------------------------
(* Back-to-back lecture and lab meetings and their rooms.                  *)

\* C30: a back-to-back lecture/lab meeting combination of a valid pair yields
\* no violation only when both meetings have the same non-null room id; when
\* either meeting, or both, has no resolved room it yields one violation of
\* magnitude 1.
C30_BackToBackNeedsARoom ==
    HardChecked =>
        \A c \in SameDayCombinations :
            LET lec == valid_pairs[c[1]].lecture_section
                lab == valid_pairs[c[1]].lab_section
                lec_m == sections[lec].meetings[c[2]]
                lab_m == sections[lab].meetings[c[3]]
                reported == SeparationReported(lec, lab, lec_m, lab_m)
            IN BackToBack(lec_m, lab_m) =>
                  /\ reported = {} =>
                        /\ lec_m.room_id # None
                        /\ lab_m.room_id # None
                        /\ lec_m.room_id = lab_m.room_id
                  /\ (lec_m.room_id = None \/ lab_m.room_id = None) =>
                        /\ Cardinality(reported) = 1
                        /\ \A v \in reported : hard_violations[v].magnitude = 1

\* C30 witness: a lecture meeting and a lab meeting of a valid pair that are
\* back-to-back and both without a room, with one violation reported.
C30_Witness ==
    /\ HardChecked
    /\ \E c \in SameDayCombinations :
          LET lec == valid_pairs[c[1]].lecture_section
              lab == valid_pairs[c[1]].lab_section
              lec_m == sections[lec].meetings[c[2]]
              lab_m == sections[lab].meetings[c[3]]
          IN /\ BackToBack(lec_m, lab_m)
             /\ lec_m.room_id = None
             /\ lab_m.room_id = None
             /\ Cardinality(SeparationReported(lec, lab, lec_m, lab_m)) = 1

====
